---- MODULE Spec2Model ----
(***************************************************************************)
(* The ingestion and synchronisation engine of xeno-backend: paginated,    *)
(* checkpointed sync runs (services/data-ingestion.ts), the webhook        *)
(* receiver (services/webhook-handler.ts) and the tables they write        *)
(* (database/migrations.sql), over an external source that changes while   *)
(* runs are in progress.                                                   *)
(***************************************************************************)
EXTENDS Integers, Sequences, FiniteSets, TLC

\* ------------------------------------------------------------------ bounds
\* External ids 1..MaxId exist in each collection of the source.
MaxId == 3
\* The page size asked of the source (250 in the code), scaled down.
PageSize == 2
\* The source clock: every change of the source takes the next timestamp.
MaxTs == 3
\* Sync runs started in one behaviour.
MaxRuns == 2
\* Faults (a failed request or query) injected in one behaviour.
MaxFaults == 1
\* Webhook deliveries in one behaviour.
MaxHooks == 2

\* ------------------------------------------------------------------ values
\* null / undefined: an absent timestamp, cursor, customer or id.
Null == 0

Tenants == {"t1", "t2"}
Entities == {"customers", "products", "orders"}
Keys == Tenants \X Entities
Ids == 1..MaxId
Runs == 1..MaxRuns
Hooks == 1..MaxHooks

\* The strings a price or total arrives as.
NumStrings == {"10.50", "12abc", "", "abc"}

\* parseFloat: the longest numeric prefix, NaN when there is none.
ParseFloat(s) ==
  CASE s = "10.50" -> "10.50"
    [] s = "12abc" -> "12.00"
    [] s = "0" -> "0.00"
    [] OTHER -> "NaN"

\* s || '0' : the empty (or missing) string is falsy.
OrZero(s) == IF s = "" THEN "0" ELSE s

VARIABLES
  source,     \* the external source: per (tenant, entity) a set of records
  stime,      \* the source's clock
  customers, products, product_variants, orders, order_line_items,
  custom_events, webhook_receipts,
  sync_checkpoints,   \* (tenant, entity) -> last_updated_at, Null when no row
  sync_logs,          \* sequence of rows; a row's id is its index
  now,        \* the database's NOW()
  call,       \* a Database.query call: its statement, attempts and errors
  timer,      \* the scheduler's timers and the sweeps they have started
  run,        \* the sync runs
  hook,       \* the webhook deliveries
  emitted,    \* the customer payloads the source has sent webhooks for
  faults,     \* faults injected so far
  obs,        \* what was observed of each run (history, read by the properties)
  hist,       \* what was applied to each row (history, read by the properties)
  sweep,      \* the scheduled sweep over the tenants
  trigger     \* the manual ingestion request

tables == <<customers, products, product_variants, orders, order_line_items>>
hookTables == <<custom_events, webhook_receipts>>
hookVars == <<hook, emitted>>
callers == <<sweep, trigger>>
aside == <<now, call, timer>>
vars == <<source, stime, customers, products, product_variants, orders,
          order_line_items, custom_events, webhook_receipts, sync_checkpoints,
          sync_logs, now, run, hook, emitted, faults, obs, hist, sweep, trigger,
          call, timer>>

\* ------------------------------------------------------------------ helpers
Max(a, b) == IF a >= b THEN a ELSE b

RECURSIVE SetMax(_)
SetMax(S) == IF S = {} THEN Null
             ELSE LET x == CHOOSE y \in S : TRUE IN Max(x, SetMax(S \ {x}))

RECURSIVE SeqById(_)
\* The records of S in ascending id order.
SeqById(S) ==
  IF S = {} THEN <<>>
  ELSE LET m == CHOOSE p \in S : \A q \in S : p.id <= q.id
       IN <<m>> \o SeqById(S \ {m})

Take(s, n) == SubSeq(s, 1, IF Len(s) < n THEN Len(s) ELSE n)

Range(s) == {s[i] : i \in 1..Len(s)}

\* new Date(c.updated_at || c.created_at)
EffectiveTs(p) == IF p.updated_at # Null THEN p.updated_at ELSE p.created_at

\* ------------------------------------------------------------------ source
\* A record of the source: id, ver (stands for every pass-through field: a
\* change of the record changes ver), num (the string of its price / total),
\* created_at, updated_at (Null when the record carries none), customer (the
\* embedded customer's id of an order, Null when none) and children (the
\* variants of a product, the line items of an order).
Child(cid, ver, num) == [id |-> cid, ver |-> ver, num |-> num]

\* Record id's children are numbered 2*id-1 and 2*id.
Kids(id, n, ver, num) == [i \in 1..n |-> Child(2 * id - 2 + i, ver, num)]

Record(id, ver, num, created, updated, cust, kids) ==
  [id |-> id, ver |-> ver, num |-> num, created_at |-> created,
   updated_at |-> updated, customer |-> cust, children |-> kids]

NoRecord == Record(Null, Null, "", Null, Null, Null, <<>>)

\* The source creates record id of collection k, or changes it: the change
\* takes the next timestamp, and a created record may lack updated_at.
SourceWrite(k, id, num, withUpdated, cust, nkids) ==
  /\ stime < MaxTs
  /\ stime' = stime + 1
  /\ LET old == {p \in source[k] : p.id = id}
         ts == stime + 1
         kids == Kids(id, nkids, ts, num)
         new == IF old = {}
                THEN Record(id, ts, num, ts, IF withUpdated THEN ts ELSE Null,
                            cust, kids)
                ELSE LET o == CHOOSE p \in old : TRUE
                     IN Record(id, ts, num, o.created_at, ts, cust, kids)
     IN source' = [source EXCEPT ![k] = (@ \ old) \cup {new}]

\* GET /<entity>.json?limit=..&since_id=.. : the records after the cursor, in
\* ascending id order, at most limit of them.
SourcePage(k, limit, sinceId) ==
  Take(SeqById({p \in source[k] : p.id > sinceId}), limit)

\* As GetPage, but the checkpoint is sent as updated_at_min and honoured.
GetPageSince(k, limit, sinceId, updatedAtMin) ==
  Take(SeqById({p \in source[k] :
                  /\ p.id > sinceId
                  /\ updatedAtMin # Null => EffectiveTs(p) >= updatedAtMin}),
       limit)

\* ShopifyAPIService.getCustomers / getOrders / getProducts(limit, sinceId):
\* a third argument (the checkpoint) is accepted by no parameter and sent in
\* no request.
GetPage(k, limit, sinceId, updatedAtMin) == SourcePage(k, limit, sinceId)

\* ------------------------------------------------------------------ tables
\* Every row: id (the local key), tenant_id, ext (the shopify_*_id column),
\* data (the columns of DO UPDATE SET, as the version they came from), kept
\* (the columns set by INSERT only), num (the parsed price / total columns).
\* As Hit, with the key on the external id alone.
HitAnyTenant(tbl, t, ext) == {r \in tbl : r.ext = ext}

Hit(tbl, t, ext) == {r \in tbl : r.tenant_id = t /\ r.ext = ext}

NewId(tbl) == Cardinality(tbl) + 1

CustomerRow(tbl, t, c, spent, at) ==
  [id |-> NewId(tbl), tenant_id |-> t, ext |-> c.id,
   data |-> c.ver, kept |-> c.ver, num |-> spent,
   shopify_created_at |-> c.created_at, shopify_updated_at |-> c.updated_at,
   created_at |-> at, updated_at |-> at]

\* As UpsertCustomer, but an existing row is deleted and inserted anew.
ReplaceCustomer(tbl, t, c, spent, at) ==
  (tbl \ Hit(tbl, t, c.id))
  \cup {[CustomerRow(tbl, t, c, spent, at) EXCEPT !.id = NewId(tbl) + 1]}

\* As UpsertCustomer, without the conflict clause: always a new row.
InsertCustomer(tbl, t, c, spent, at) == tbl \cup {CustomerRow(tbl, t, c, spent, at)}

\* As UpsertCustomer, but an existing row is overwritten only by a payload
\* whose updated_at is newer than the stored one.
UpsertCustomerIfNewer(tbl, t, c, spent, at) ==
  LET hit == Hit(tbl, t, c.id) IN
  IF hit = {} THEN tbl \cup {CustomerRow(tbl, t, c, spent, at)}
  ELSE (tbl \ hit) \cup
       {IF c.updated_at > r.shopify_updated_at
        THEN [r EXCEPT !.data = c.ver, !.num = spent, !.updated_at = at,
                       !.shopify_updated_at = c.updated_at]
        ELSE r : r \in hit}

\* INSERT INTO customers ... ON CONFLICT (tenant_id, shopify_customer_id) DO UPDATE
UpsertCustomer(tbl, t, c, spent, at) ==
  LET hit == Hit(tbl, t, c.id) IN
  IF hit = {}
  THEN tbl \cup {CustomerRow(tbl, t, c, spent, at)}
  ELSE (tbl \ hit) \cup
       {[r EXCEPT !.data = c.ver, !.num = spent, !.updated_at = at,
                  !.shopify_updated_at = c.updated_at] : r \in hit}

\* As UpsertProduct, without the conflict clause: always a new row.
InsertProduct(tbl, t, p, at) ==
  tbl \cup {[id |-> NewId(tbl), tenant_id |-> t, ext |-> p.id,
             data |-> p.ver, kept |-> p.ver,
             shopify_created_at |-> p.created_at,
             shopify_updated_at |-> p.updated_at,
             created_at |-> at, updated_at |-> at]}

\* INSERT INTO products ... ON CONFLICT (tenant_id, shopify_product_id) DO UPDATE
UpsertProduct(tbl, t, p, at) ==
  LET hit == Hit(tbl, t, p.id) IN
  IF hit = {}
  THEN tbl \cup {[id |-> NewId(tbl), tenant_id |-> t, ext |-> p.id,
                  data |-> p.ver, kept |-> p.ver,
                  shopify_created_at |-> p.created_at,
                  shopify_updated_at |-> p.updated_at,
                  created_at |-> at, updated_at |-> at]}
  ELSE (tbl \ hit) \cup
       {[r EXCEPT !.data = p.ver, !.updated_at = at,
                  !.shopify_updated_at = p.updated_at] : r \in hit}

\* INSERT INTO product_variants ... ON CONFLICT (tenant_id, shopify_variant_id) DO UPDATE
UpsertVariant(tbl, t, productId, v, at) ==
  LET hit == Hit(tbl, t, v.id) IN
  IF hit = {}
  THEN tbl \cup {[id |-> NewId(tbl), tenant_id |-> t, product_id |-> productId,
                  ext |-> v.id, data |-> v.ver, kept |-> v.ver,
                  num |-> ParseFloat(v.num),
                  created_at |-> at, updated_at |-> at]}
  ELSE (tbl \ hit) \cup
       {[r EXCEPT !.product_id = productId, !.data = v.ver,
                  !.num = ParseFloat(v.num), !.updated_at = at] : r \in hit}

\* INSERT INTO orders ... ON CONFLICT (tenant_id, shopify_order_id) DO UPDATE:
\* currency and the two addresses are set by the insert alone.
UpsertOrder(tbl, t, customerId, o, at) ==
  LET hit == Hit(tbl, t, o.id) IN
  IF hit = {}
  THEN tbl \cup {[id |-> NewId(tbl), tenant_id |-> t, customer_id |-> customerId,
                  ext |-> o.id, data |-> o.ver, kept |-> o.ver,
                  num |-> ParseFloat(o.num),
                  shopify_created_at |-> o.created_at,
                  shopify_updated_at |-> o.updated_at,
                  created_at |-> at, updated_at |-> at]}
  ELSE (tbl \ hit) \cup
       {[r EXCEPT !.customer_id = customerId, !.data = o.ver,
                  !.num = ParseFloat(o.num), !.updated_at = at,
                  !.shopify_updated_at = o.updated_at] : r \in hit}

\* INSERT INTO order_line_items ... ON CONFLICT (tenant_id, shopify_line_item_id) DO UPDATE
UpsertLineItem(tbl, t, orderId, li, at) ==
  LET hit == Hit(tbl, t, li.id) IN
  IF hit = {}
  THEN tbl \cup {[id |-> NewId(tbl), tenant_id |-> t, order_id |-> orderId,
                  ext |-> li.id, data |-> li.ver, kept |-> li.ver,
                  num |-> ParseFloat(li.num), created_at |-> at]}
  ELSE (tbl \ hit) \cup
       {[r EXCEPT !.order_id = orderId, !.data = li.ver,
                  !.num = ParseFloat(li.num)] : r \in hit}

\* As RowId, but the id of the row inserted last into the table.
RowIdLatest(tbl, t, ext) == Cardinality(tbl)

\* RETURNING id
RowId(tbl, t, ext) == (CHOOSE r \in Hit(tbl, t, ext) : TRUE).id

\* As LookupCustomer, but the SELECT has no tenant_id condition.
LookupCustomerAnyShop(tbl, t, cust) ==
  IF cust # Null /\ HitAnyTenant(tbl, t, cust) # {}
  THEN (CHOOSE r \in HitAnyTenant(tbl, t, cust) : TRUE).id ELSE Null

\* As LookupCustomer, but the order's embedded customer id is used as it is.
LookupCustomerExternal(tbl, t, cust) == cust

\* SELECT id FROM customers WHERE tenant_id = $1 AND shopify_customer_id = $2
LookupCustomer(tbl, t, cust) ==
  IF cust # Null /\ Hit(tbl, t, cust) # {} THEN RowId(tbl, t, cust) ELSE Null

\* ------------------------------------------------------------------ page writes
\* One page = one Database.transaction: the fold of the upserts over the page.
RECURSIVE WriteCustomers(_, _, _, _)
WriteCustomers(tbl, t, page, at) ==
  IF page = <<>> THEN tbl
  ELSE WriteCustomers(
         UpsertCustomer(tbl, t, Head(page), ParseFloat(Head(page).num), at),
         t, Tail(page), at)

RECURSIVE WriteVariants(_, _, _, _, _)
WriteVariants(tbl, t, productId, kids, at) ==
  IF kids = <<>> THEN tbl
  ELSE WriteVariants(UpsertVariant(tbl, t, productId, Head(kids), at),
                     t, productId, Tail(kids), at)

RECURSIVE WriteLineItems(_, _, _, _, _)
WriteLineItems(tbl, t, orderId, items, at) ==
  IF items = <<>> THEN tbl
  ELSE WriteLineItems(UpsertLineItem(tbl, t, orderId, Head(items), at),
                      t, orderId, Tail(items), at)

\* db = [parents |-> products, kids |-> product_variants]
RECURSIVE WriteProducts(_, _, _, _)
WriteProducts(db, t, page, at) ==
  IF page = <<>> THEN db
  ELSE LET p == Head(page)
           parents == UpsertProduct(db.parents, t, p, at)
           productId == RowId(parents, t, p.id)
       IN WriteProducts(
            [parents |-> parents,
             kids |-> WriteVariants(db.kids, t, productId, p.children, at)],
            t, Tail(page), at)

\* db = [parents |-> orders, kids |-> order_line_items]; custs = customers
RECURSIVE WriteOrders(_, _, _, _, _)
WriteOrders(db, custs, t, page, at) ==
  IF page = <<>> THEN db
  ELSE LET o == Head(page)
           customerId == LookupCustomer(custs, t, o.customer)
           parents == UpsertOrder(db.parents, t, customerId, o, at)
           orderId == RowId(parents, t, o.id)
       IN WriteOrders(
            [parents |-> parents,
             kids |-> WriteLineItems(db.kids, t, orderId, o.children, at)],
            custs, t, Tail(page), at)

\* The tables after the transaction of one page of entity e has committed.
CommitPage(e, t, page) ==
  CASE e = "customers" ->
         /\ customers' = WriteCustomers(customers, t, page, now)
         /\ UNCHANGED <<products, product_variants, orders, order_line_items>>
    [] e = "products" ->
         LET db == WriteProducts([parents |-> products, kids |-> product_variants],
                                 t, page, now)
         IN /\ products' = db.parents
            /\ product_variants' = db.kids
            /\ UNCHANGED <<customers, orders, order_line_items>>
    [] e = "orders" ->
         LET db == WriteOrders([parents |-> orders, kids |-> order_line_items],
                               customers, t, page, now)
         IN /\ orders' = db.parents
            /\ order_line_items' = db.kids
            /\ UNCHANGED <<customers, products, product_variants>>

\* ------------------------------------------------------------------ history
\* Per parent row (entity, tenant, external id): the payload applied last, by
\* which path ("sync" or "webhook"), how many were applied, and their versions.
HistKeys == Entities \X Tenants \X Ids

NoHist == [last |-> NoRecord, path |-> "none", n |-> 0, vers |-> {}]

Applied(h, e, t, payloads, path) ==
  [key \in HistKeys |->
     IF key[1] = e /\ key[2] = t /\ \E p \in payloads : p.id = key[3]
     THEN LET p == CHOOSE q \in payloads : q.id = key[3]
          IN [last |-> p, path |-> path, n |-> h[key].n + 1,
              vers |-> h[key].vers \cup {p.ver}]
     ELSE h[key]]

\* ------------------------------------------------------------------ sync runs
\* DataIngestionService.ingestCustomers / ingestProducts / ingestOrders. A
\* run's pc: idle, fetch (about to request a page), write (a page in hand),
\* complete (the loop is over), checkpoint (log completed, checkpoint due),
\* done (returned success), failed (the catch block ran and rethrew), thrown
\* (threw before the try block).
IdleRun ==
  [pc |-> "idle", tenant |-> "t1", entity |-> "customers", sinceId |-> Null,
   totalProcessed |-> 0, lastUpdatedAt |-> Null, maxUpdatedInRun |-> Null,
   logId |-> Null, page |-> <<>>]

NoObs ==
  [ckptAtStart |-> Null, alone |-> TRUE, base |-> {}, missed |-> {},
   fetched |-> 0, shortSeen |-> FALSE, fetchAfterShort |-> FALSE,
   seenTs |-> {}, wrote |-> {}, requests |-> 0]

RunKey(r) == <<run[r].tenant, run[r].entity>>

Active(r) == run[r].pc \in {"fetch", "write", "complete", "checkpoint"}

ParentTable(e) ==
  CASE e = "customers" -> customers
    [] e = "products" -> products
    [] e = "orders" -> orders

\* INSERT INTO sync_logs (tenant_id, sync_type, status) VALUES ($1, $2, 'running')
CreateSyncLog(logs, t, e) ==
  Append(logs, [tenant_id |-> t, sync_type |-> e, status |-> "running",
                records_processed |-> 0, error_message |-> "none"])

\* As CompleteSyncLog, but the count is left as createSyncLog set it.
CompleteSyncLogNoCount(logs, logId, status, recordsProcessed, errorMessage) ==
  [logs EXCEPT ![logId] = [@ EXCEPT !.status = status,
                                    !.error_message = errorMessage]]

\* UPDATE sync_logs SET status, records_processed, error_message WHERE id = $4
CompleteSyncLog(logs, logId, status, recordsProcessed, errorMessage) ==
  [logs EXCEPT ![logId] = [@ EXCEPT !.status = status,
                                    !.records_processed = recordsProcessed,
                                    !.error_message = errorMessage]]

\* As HasMore, but only an empty page ends the loop.
HasMoreUntilEmpty(page) == TRUE

\* if (customers.length < 250) hasMore = false
HasMore(page) == Len(page) >= PageSize

\* As TrackMax, but the page's last record decides.
TrackMaxLast(maxUpdatedInRun, page) == EffectiveTs(page[Len(page)])

\* for (const c of customers) if (!maxUpdatedInRun || updatedAt > maxUpdatedInRun) ...
RECURSIVE TrackMax(_, _)
TrackMax(maxUpdatedInRun, page) ==
  IF page = <<>> THEN maxUpdatedInRun
  ELSE LET updatedAt == EffectiveTs(Head(page))
       IN TrackMax(IF maxUpdatedInRun = Null \/ updatedAt > maxUpdatedInRun
                   THEN updatedAt ELSE maxUpdatedInRun,
                   Tail(page))

\* As UpsertCheckpoint, without GREATEST: the new value replaces the stored one.
OverwriteCheckpoint(stored, latestUpdated) == latestUpdated

\* ON CONFLICT (tenant_id, entity) DO UPDATE SET last_updated_at =
\*   GREATEST(sync_checkpoints.last_updated_at, EXCLUDED.last_updated_at)
UpsertCheckpoint(stored, latestUpdated) ==
  IF stored = Null THEN latestUpdated ELSE Max(stored, latestUpdated)

\* The slots are taken in order.
CanStart(r) ==
  /\ run[r].pc = "idle"
  /\ \A q \in Runs : q < r => run[q].pc # "idle"

\* The checkpoint is read and the SyncLog row is created (in either order:
\* neither statement reads what the other writes).
StartRun(r, t, e) ==
  /\ CanStart(r)
  /\ LET k == <<t, e>>
         others == {q \in Runs : q # r /\ RunKey(q) = k /\ run[q].pc # "idle"}
     IN /\ sync_logs' = CreateSyncLog(sync_logs, t, e)
        /\ run' = [run EXCEPT ![r] =
                     [IdleRun EXCEPT !.pc = "fetch", !.tenant = t, !.entity = e,
                                     !.lastUpdatedAt = sync_checkpoints[k],
                                     !.logId = Len(sync_logs) + 1]]
        /\ obs' = [q \in Runs |->
                     IF q = r
                     THEN [NoObs EXCEPT
                             !.ckptAtStart = sync_checkpoints[k],
                             !.alone = \A o \in others : ~Active(o),
                             !.base = {<<p.id, p.ver>> : p \in source[k]},
                             !.missed =
                               {p.id : p \in
                                 {x \in source[k] :
                                    /\ sync_checkpoints[k] # Null
                                    /\ EffectiveTs(x) <= sync_checkpoints[k]
                                    /\ \A row \in Hit(ParentTable(e), t, x.id) :
                                         row.data # x.ver}}]
                     ELSE IF q \in others THEN [obs[q] EXCEPT !.alone = FALSE]
                     ELSE obs[q]]
  /\ UNCHANGED <<source, stime, tables, hookTables, hookVars, sync_checkpoints, aside, callers,
                 faults, hist>>

\* The first statements fail, outside the try block: ingestCustomers reads the
\* checkpoint before it creates the log, so it throws with no log row;
\* ingestProducts and ingestOrders create the log first, and a failed
\* checkpoint read leaves that row 'running'.
StartFault(r, t, e, logged) ==
  /\ CanStart(r)
  /\ faults < MaxFaults
  /\ logged => e # "customers"
  /\ faults' = faults + 1
  /\ sync_logs' = IF logged THEN CreateSyncLog(sync_logs, t, e) ELSE sync_logs
  /\ run' = [run EXCEPT ![r] =
               [IdleRun EXCEPT !.pc = "thrown", !.tenant = t, !.entity = e,
                               !.logId = IF logged THEN Len(sync_logs) + 1 ELSE Null]]
  /\ UNCHANGED <<source, stime, tables, hookTables, hookVars, sync_checkpoints, aside, callers,
                 obs, hist>>

\* shopify.getCustomers(250, sinceId, lastUpdatedAt ?? undefined)
FetchPage(r) ==
  /\ run[r].pc = "fetch"
  /\ LET page == GetPage(RunKey(r), PageSize, run[r].sinceId, run[r].lastUpdatedAt)
     IN /\ run' = [run EXCEPT ![r].page = page,
                              ![r].pc = IF Len(page) = 0 THEN "complete" ELSE "write"]
        /\ obs' = [obs EXCEPT ![r].fetched = @ + Len(page),
                              ![r].requests = @ + 1,
                              ![r].fetchAfterShort = obs[r].shortSeen,
                              ![r].shortSeen = Len(page) < PageSize]
  /\ UNCHANGED <<source, stime, tables, hookTables, hookVars, sync_checkpoints,
                 sync_logs, aside, callers, faults, hist>>

\* As Catch, but the records of the page in hand are counted as processed.
CatchCountingPage(r) ==
  /\ faults < MaxFaults
  /\ faults' = faults + 1
  /\ sync_logs' = CompleteSyncLog(sync_logs, run[r].logId, "failed",
                                  run[r].totalProcessed + Len(run[r].page), "error")
  /\ run' = [run EXCEPT ![r].pc = "failed", ![r].page = <<>>]

\* catch (error): completeSyncLog(logId, 'failed', totalProcessed, message); throw
Catch(r) ==
  /\ faults < MaxFaults
  /\ faults' = faults + 1
  /\ sync_logs' = CompleteSyncLog(sync_logs, run[r].logId, "failed",
                                  run[r].totalProcessed, "error")
  /\ run' = [run EXCEPT ![r].pc = "failed", ![r].page = <<>>]

\* The page request fails (network, rate limit, malformed response).
FetchFault(r) ==
  /\ run[r].pc = "fetch"
  /\ Catch(r)
  /\ UNCHANGED <<source, stime, tables, hookTables, hookVars, sync_checkpoints, aside, callers,
                 obs, hist>>

\* As WritePage, but the cursor is left where it was.
WritePageKeepingCursor(r) ==
  /\ run[r].pc = "write"
  /\ LET page == run[r].page IN
     /\ CommitPage(run[r].entity, run[r].tenant, page)
     /\ run' = [run EXCEPT
                  ![r].totalProcessed = @ + Len(page),
                  ![r].maxUpdatedInRun = TrackMax(@, page),
                  ![r].page = <<>>,
                  ![r].pc = IF HasMore(page) THEN "fetch" ELSE "complete"]
     /\ obs' = [obs EXCEPT
                  ![r].seenTs = @ \cup {EffectiveTs(p) : p \in Range(page)},
                  ![r].wrote = @ \cup {<<p.id, p.ver>> : p \in Range(page)}]
     /\ hist' = Applied(hist, run[r].entity, run[r].tenant, Range(page), "sync")
  /\ UNCHANGED <<source, stime, hookTables, hookVars, sync_checkpoints, sync_logs, aside, callers,
                 faults>>

\* As WritePage, but the checkpoint is advanced with every committed page.
WritePageAdvancing(r) ==
  /\ run[r].pc = "write"
  /\ LET page == run[r].page IN
     /\ CommitPage(run[r].entity, run[r].tenant, page)
     /\ run' = [run EXCEPT
                  ![r].totalProcessed = @ + Len(page),
                  ![r].sinceId = page[Len(page)].id,
                  ![r].maxUpdatedInRun = TrackMax(@, page),
                  ![r].page = <<>>,
                  ![r].pc = IF HasMore(page) THEN "fetch" ELSE "complete"]
     /\ obs' = [obs EXCEPT
                  ![r].seenTs = @ \cup {EffectiveTs(p) : p \in Range(page)},
                  ![r].wrote = @ \cup {<<p.id, p.ver>> : p \in Range(page)}]
     /\ hist' = Applied(hist, run[r].entity, run[r].tenant, Range(page), "sync")
     /\ sync_checkpoints' =
          [sync_checkpoints EXCEPT ![RunKey(r)] =
             UpsertCheckpoint(@, TrackMax(run[r].maxUpdatedInRun, page))]
  /\ UNCHANGED <<source, stime, hookTables, hookVars, sync_logs, aside, callers, faults>>

\* Database.transaction commits the page; then the counters move.
WritePage(r) ==
  /\ run[r].pc = "write"
  /\ LET page == run[r].page IN
     /\ CommitPage(run[r].entity, run[r].tenant, page)
     /\ run' = [run EXCEPT
                  ![r].totalProcessed = @ + Len(page),
                  ![r].sinceId = page[Len(page)].id,
                  ![r].maxUpdatedInRun = TrackMax(@, page),
                  ![r].page = <<>>,
                  ![r].pc = IF HasMore(page) THEN "fetch" ELSE "complete"]
     /\ obs' = [obs EXCEPT
                  ![r].seenTs = @ \cup {EffectiveTs(p) : p \in Range(page)},
                  ![r].wrote = @ \cup {<<p.id, p.ver>> : p \in Range(page)}]
     /\ hist' = Applied(hist, run[r].entity, run[r].tenant, Range(page), "sync")
  /\ UNCHANGED <<source, stime, hookTables, hookVars, sync_checkpoints, sync_logs, aside, callers,
                 faults>>

\* The entity tables, as one value.
Snapshot ==
  [customers |-> customers, products |-> products,
   product_variants |-> product_variants, orders |-> orders,
   order_line_items |-> order_line_items]

\* The entity tables as the statements of a page's transaction have left
\* them when one of them fails: the first n records of the page are written
\* whole and, when half, the parent row of the next one without its children.
PartialPage(e, t, page, n, half) ==
  LET done == Take(page, n)
      next == page[n + 1]
  IN CASE e = "customers" ->
            [Snapshot EXCEPT
               !.customers = WriteCustomers(customers, t, done, now)]
       [] e = "products" ->
            LET db == WriteProducts([parents |-> products,
                                     kids |-> product_variants], t, done, now)
            IN [Snapshot EXCEPT
                  !.products = IF half THEN UpsertProduct(db.parents, t, next, now)
                               ELSE db.parents,
                  !.product_variants = db.kids]
       [] e = "orders" ->
            LET db == WriteOrders([parents |-> orders, kids |-> order_line_items],
                                  customers, t, done, now)
            IN [Snapshot EXCEPT
                  !.orders =
                    IF half
                    THEN UpsertOrder(db.parents, t,
                                     LookupCustomer(customers, t, next.customer),
                                     next, now)
                    ELSE db.parents,
                  !.order_line_items = db.kids]

\* As Rollback, but the statements already executed stay (no transaction).
NoRollback(before, partial) == partial

\* Database.transaction: catch (error) { ROLLBACK; throw error }
Rollback(before, partial) == before

\* A statement of the page's transaction fails: ROLLBACK, and the error
\* reaches the catch block.
WriteFault(r) ==
  /\ run[r].pc = "write"
  /\ Catch(r)
  /\ \E n \in 0..(Len(run[r].page) - 1), half \in BOOLEAN :
       LET after == Rollback(Snapshot,
                             PartialPage(run[r].entity, run[r].tenant,
                                         run[r].page, n, half))
       IN /\ customers' = after.customers
          /\ products' = after.products
          /\ product_variants' = after.product_variants
          /\ orders' = after.orders
          /\ order_line_items' = after.order_line_items
  /\ UNCHANGED <<source, stime, hookTables, hookVars, sync_checkpoints, aside, callers,
                 obs, hist>>

\* As CompleteRun, but the checkpoint upsert follows unconditionally.
CompleteRunAlwaysCheckpoint(r) ==
  /\ run[r].pc = "complete"
  /\ sync_logs' = CompleteSyncLog(sync_logs, run[r].logId, "completed",
                                  run[r].totalProcessed, "none")
  /\ run' = [run EXCEPT ![r].pc = "checkpoint"]
  /\ UNCHANGED <<source, stime, tables, hookTables, hookVars, sync_checkpoints, aside, callers,
                 faults, obs, hist>>

\* await this.completeSyncLog(logId, 'completed', totalProcessed)
CompleteRun(r) ==
  /\ run[r].pc = "complete"
  /\ sync_logs' = CompleteSyncLog(sync_logs, run[r].logId, "completed",
                                  run[r].totalProcessed, "none")
  /\ run' = [run EXCEPT ![r].pc =
               IF run[r].totalProcessed > 0 /\ run[r].maxUpdatedInRun # Null
               THEN "checkpoint" ELSE "done"]
  /\ UNCHANGED <<source, stime, tables, hookTables, hookVars, sync_checkpoints, aside, callers,
                 faults, obs, hist>>

\* The checkpoint upsert, then return { success: true, processed }.
WriteCheckpoint(r) ==
  /\ run[r].pc = "checkpoint"
  /\ sync_checkpoints' =
       [sync_checkpoints EXCEPT ![RunKey(r)] =
          UpsertCheckpoint(@, run[r].maxUpdatedInRun)]
  /\ run' = [run EXCEPT ![r].pc = "done"]
  /\ UNCHANGED <<source, stime, tables, hookTables, hookVars, sync_logs, aside, callers, faults,
                 obs, hist>>

\* The checkpoint upsert fails, inside the try block: the catch block marks
\* the log 'failed'.
CheckpointFault(r) ==
  /\ run[r].pc = "checkpoint"
  /\ Catch(r)
  /\ UNCHANGED <<source, stime, tables, hookTables, hookVars, sync_checkpoints, aside, callers,
                 obs, hist>>

\* The completeSyncLog('completed') update fails, inside the try block.
CompleteFault(r) ==
  /\ run[r].pc = "complete"
  /\ Catch(r)
  /\ UNCHANGED <<source, stime, tables, hookTables, hookVars, sync_checkpoints, aside, callers,
                 obs, hist>>

\* ------------------------------------------------------------------ webhooks
\* WebhookHandler.handleCustomerUpdate / handleCartAbandoned /
\* handleCheckoutStarted. A delivery's pc: idle, tenant (verified, tenant
\* lookup due), receipt (receipt insert due), lookup (customer lookup due),
\* mutate (data write due), done (answered with status).
Topics == {"customers/update", "carts/abandoned", "checkouts/create"}

Domains == {"t1.myshopify.com", "t2.myshopify.com", "gone.myshopify.com"}

NoTenant == "none"

\* SELECT * FROM tenants WHERE shop_domain = $1 ; result.rows[0] || null
GetTenantByDomain(shopDomain) ==
  CASE shopDomain = "t1.myshopify.com" -> "t1"
    [] shopDomain = "t2.myshopify.com" -> "t2"
    [] OTHER -> NoTenant

\* The cart tokens of the deliveries; the empty token is falsy.
Tokens == {"", "abc", "abcdefX", "abcdefY"}

\* parseInt(Buffer.from(token).toString('hex').slice(0, 12), 16): a number
\* made of the token's first six bytes.
TokenNumber(token) ==
  CASE token = "abc" -> 11
    [] token = "abcdefX" -> 12
    [] token = "abcdefY" -> 12
    [] OTHER -> Null

\* crypto.createHmac('sha256', secret).update(rawBody).digest('base64')
Hmac(body, token) == <<"hmac", body.id, body.ver, token>>

\* verifyWebhook(req.rawBody, signature): hmac.update throws when rawBody was
\* not captured (undefined).
VerifyWebhook(captured, body, token, signature) ==
  IF ~captured THEN "throws"
  ELSE IF Hmac(body, token) = signature THEN "true" ELSE "false"

IdleHook ==
  [pc |-> "idle", topic |-> "customers/update", body |-> NoRecord, token |-> "",
   shopDomain |-> "gone.myshopify.com", tenant |-> NoTenant, customerId |-> Null,
   status |-> 0, claimed |-> FALSE, mutations |-> 0, faulted |-> FALSE,
   signature |-> <<>>]

\* The third parameter of INSERT INTO webhook_receipts.
ExternalId(topic, body, token) ==
  CASE topic = "customers/update" -> body.id
    [] topic = "carts/abandoned" -> IF token # "" THEN TokenNumber(token) ELSE Null
    [] topic = "checkouts/create" -> body.id

\* As ReceiptConflict, with no constraint on the table.
NoReceiptConflict(tbl, t, topic, externalId) == FALSE

\* UNIQUE(tenant_id, topic, external_id): NULLs never conflict.
ReceiptConflict(tbl, t, topic, externalId) ==
  /\ externalId # Null
  /\ \E r \in tbl : r.tenant_id = t /\ r.topic = topic /\ r.external_id = externalId

InsertReceipt(tbl, t, topic, externalId) ==
  tbl \cup {[id |-> NewId(tbl), tenant_id |-> t, topic |-> topic,
             external_id |-> externalId]}

\* INSERT INTO custom_events (tenant_id, customer_id, event_type, event_data, cart_token)
InsertEvent(tbl, t, customerId, eventType, body, token) ==
  tbl \cup {[id |-> NewId(tbl), tenant_id |-> t, customer_id |-> customerId,
             event_type |-> eventType, event_data |-> body, cart_token |-> token]}

EventType(topic) ==
  IF topic = "carts/abandoned" THEN "cart_abandoned" ELSE "checkout_started"

CanReceive(h) ==
  /\ hook[h].pc = "idle"
  /\ \A g \in Hooks : g < h => hook[g].pc # "idle"

Answer(h, status) ==
  hook' = [hook EXCEPT ![h].pc = "done", ![h].status = status]

\* The request arrives and its signature is checked.
Receive(h, topic, body, token, shopDomain, signature, captured) ==
  /\ CanReceive(h)
  /\ LET verdict == VerifyWebhook(captured, body, token, signature)
         arrived == [IdleHook EXCEPT !.topic = topic, !.body = body,
                                     !.token = token, !.shopDomain = shopDomain,
                                     !.signature = signature]
     IN hook' = [hook EXCEPT ![h] =
                   CASE verdict = "throws" -> [arrived EXCEPT !.pc = "done", !.status = 500]
                     [] verdict = "false" -> [arrived EXCEPT !.pc = "done", !.status = 401]
                     [] OTHER -> [arrived EXCEPT !.pc = "tenant"]]
  /\ UNCHANGED <<source, stime, tables, hookTables, emitted, sync_checkpoints,
                 sync_logs, aside, callers, run, faults, obs, hist>>

\* const tenant = await this.getTenantByDomain(shopDomain)
LookupTenant(h) ==
  /\ hook[h].pc = "tenant"
  /\ LET tenant == GetTenantByDomain(hook[h].shopDomain)
     IN hook' = [hook EXCEPT
                   ![h].tenant = tenant,
                   ![h].pc = IF tenant = NoTenant THEN "done" ELSE "receipt",
                   ![h].status = IF tenant = NoTenant THEN 404 ELSE 0]
  /\ UNCHANGED <<source, stime, tables, hookTables, emitted, sync_checkpoints,
                 sync_logs, aside, callers, run, faults, obs, hist>>

\* As ClaimReceipt, but a unique violation is swallowed and the handler goes on.
ClaimReceiptUngated(h) ==
  /\ hook[h].pc = "receipt"
  /\ LET d == hook[h]
         externalId == ExternalId(d.topic, d.body, d.token)
         conflict == ReceiptConflict(webhook_receipts, d.tenant, d.topic, externalId)
     IN /\ webhook_receipts' =
             IF conflict THEN webhook_receipts
             ELSE InsertReceipt(webhook_receipts, d.tenant, d.topic, externalId)
        /\ hook' = [hook EXCEPT
                      ![h].claimed = ~conflict,
                      ![h].pc = IF d.topic # "customers/update"
                                   /\ d.body.customer # Null
                                THEN "lookup" ELSE "mutate"]
  /\ UNCHANGED <<source, stime, tables, custom_events, emitted, sync_checkpoints,
                 sync_logs, aside, callers, run, faults, obs, hist>>

\* The receipt insert: a unique violation (23505) answers 200 duplicate.
ClaimReceipt(h) ==
  /\ hook[h].pc = "receipt"
  /\ LET d == hook[h]
         externalId == ExternalId(d.topic, d.body, d.token)
     IN IF ReceiptConflict(webhook_receipts, d.tenant, d.topic, externalId)
        THEN /\ Answer(h, 200)
             /\ UNCHANGED webhook_receipts
        ELSE /\ webhook_receipts' =
                  InsertReceipt(webhook_receipts, d.tenant, d.topic, externalId)
             /\ hook' = [hook EXCEPT
                           ![h].claimed = TRUE,
                           ![h].pc = IF d.topic # "customers/update"
                                        /\ d.body.customer # Null
                                     THEN "lookup" ELSE "mutate"]
  /\ UNCHANGED <<source, stime, tables, custom_events, emitted, sync_checkpoints,
                 sync_logs, aside, callers, run, faults, obs, hist>>

\* if (cartData.customer) SELECT id FROM customers ...
LookupHookCustomer(h) ==
  /\ hook[h].pc = "lookup"
  /\ hook' = [hook EXCEPT
                ![h].customerId =
                  LookupCustomer(customers, hook[h].tenant, hook[h].body.customer),
                ![h].pc = "mutate"]
  /\ UNCHANGED <<source, stime, tables, hookTables, emitted, sync_checkpoints,
                 sync_logs, aside, callers, run, faults, obs, hist>>

\* The data write of the delivery, then res.status(200).
Mutate(h) ==
  /\ hook[h].pc = "mutate"
  /\ LET d == hook[h] IN
     IF d.topic = "customers/update"
     THEN /\ customers' = UpsertCustomer(customers, d.tenant, d.body,
                                         ParseFloat(OrZero(d.body.num)), now)
          /\ hist' = Applied(hist, "customers", d.tenant, {d.body}, "webhook")
          /\ UNCHANGED custom_events
     ELSE /\ custom_events' = InsertEvent(custom_events, d.tenant, d.customerId,
                                          EventType(d.topic), d.body, d.token)
          /\ UNCHANGED <<customers, hist>>
  /\ hook' = [hook EXCEPT ![h].pc = "done", ![h].status = 200, ![h].mutations = @ + 1]
  /\ UNCHANGED <<source, stime, products, product_variants, orders, order_line_items,
                 webhook_receipts, emitted, sync_checkpoints, sync_logs, aside, callers, run,
                 faults, obs>>

\* A query of the delivery fails with another error: the outer catch answers 500.
HookFault(h) ==
  /\ hook[h].pc \in {"tenant", "receipt", "lookup", "mutate"}
  /\ faults < MaxFaults
  /\ faults' = faults + 1
  /\ hook' = [hook EXCEPT ![h].pc = "done", ![h].status = 500, ![h].faulted = TRUE]
  /\ UNCHANGED <<source, stime, tables, hookTables, emitted, sync_checkpoints,
                 sync_logs, aside, callers, run, obs, hist>>

\* ------------------------------------------------------------------ Spec
\* The sync engine: runs of one tenant, overlapping, over a source that
\* changes while they paginate, with faults.
SyncEntities == {"customers"}

\* Records 1..n of each collection exist when the engine starts.
InitSource(n) ==
  [k \in Keys |->
     IF k[1] = "t1" /\ k[2] \in SyncEntities
     THEN {Record(id, 1, "10.50", 1, 1, Null, <<>>) : id \in 1..n}
     ELSE {}]

\* The sweep: pc idle, tenant (next tenant due), ingest (an ingest call due or
\* in progress), done. rows is the tenants table as the sweep's query saw it.
IdleSweep ==
  [pc |-> "idle", rows |-> [t \in Tenants |-> "ok"], todo |-> <<>>,
   tenant |-> "t1", step |-> 1, visited |-> {}, attempted |-> {}, caught |-> {},
   finished |-> {}, fatal |-> FALSE]

\* A Database.query call: pc idle, attempt (an attempt is due), returned or
\* thrown. i is the loop variable, errors the errors of the attempts so far,
\* applied how often the statement has taken effect, fresh whether the
\* statement could take effect when the call began.
IdleCall ==
  [pc |-> "idle", stmt |-> "createSyncLog", i |-> 0, errors |-> <<>>,
   error |-> "none", applied |-> 0, fresh |-> TRUE, calls |-> 0]

\* The timers: fired counts the callbacks invoked, inflight the invocations
\* of runScheduledIngestion that have not returned.
IdleTimer == [fired |-> 0, inflight |-> 0]

\* The manual request: pc idle, ingest, done (answered with status).
IdleTrigger ==
  [pc |-> "idle", route |-> "routes/api", kind |-> "ok", step |-> 1, status |-> 0]

\* No run and no delivery has started.
Quiet ==
  /\ sweep = IdleSweep
  /\ trigger = IdleTrigger
  /\ call = IdleCall
  /\ timer = IdleTimer
  /\ run = [r \in Runs |-> IdleRun]
  /\ hook = [h \in Hooks |-> IdleHook]
  /\ emitted = {}
  /\ faults = 0
  /\ obs = [r \in Runs |-> NoObs]
  /\ hist = [key \in HistKeys |-> NoHist]

EmptyDb ==
  /\ customers = {} /\ products = {} /\ product_variants = {}
  /\ orders = {} /\ order_line_items = {}
  /\ custom_events = {} /\ webhook_receipts = {}
  /\ sync_checkpoints = [k \in Keys |-> Null]
  /\ sync_logs = <<>>
  /\ now = 0

Init ==
  /\ \E n \in 0..MaxId : source = InitSource(n)
  /\ stime = 1
  /\ EmptyDb
  /\ Quiet

SourceChange ==
  \E e \in SyncEntities, id \in Ids, withUpdated \in BOOLEAN :
    /\ SourceWrite(<<"t1", e>>, id, "10.50", withUpdated, Null, 0)
    /\ UNCHANGED <<tables, hookTables, hookVars, sync_checkpoints, sync_logs, aside, callers,
                   run, faults, obs, hist>>

Next ==
  \/ SourceChange
  \/ \E r \in Runs, e \in SyncEntities : StartRun(r, "t1", e)
  \/ \E r \in Runs, e \in SyncEntities, logged \in BOOLEAN :
       StartFault(r, "t1", e, logged)
  \/ \E r \in Runs : FetchPage(r)
  \/ \E r \in Runs : FetchFault(r)
  \/ \E r \in Runs : WritePage(r)
  \/ \E r \in Runs : WriteFault(r)
  \/ \E r \in Runs : CompleteRun(r)
  \/ \E r \in Runs : CompleteFault(r)
  \/ \E r \in Runs : WriteCheckpoint(r)
  \/ \E r \in Runs : CheckpointFault(r)

Spec == Init /\ [][Next]_vars

\* ------------------------------------------------------------------ StoreSpec
\* The write paths into the five entity tables: sync runs of the three entity
\* types and customers/update deliveries, over a source whose records change
\* (also to unparseable totals) and which delivers webhooks late or twice.
StoreHooks == 1..1

StoreInit ==
  /\ source = [k \in Keys |->
                 IF k[1] = "t1"
                 THEN {Record(1, 1, "10.50", 1, 1,
                              IF k[2] = "orders" THEN 1 ELSE Null,
                              IF k[2] = "customers" THEN <<>>
                              ELSE Kids(1, 1, 1, "10.50"))}
                 ELSE {}]
  /\ stime = 1
  /\ EmptyDb
  /\ Quiet

\* A change of the source; a changed customer is announced by a webhook.
StoreChanges ==
  {[e |-> "customers", id |-> 1, num |-> num, cust |-> Null, nkids |-> 0] :
     num \in {"10.50", ""}}
  \cup {[e |-> "products", id |-> 1, num |-> "10.50", cust |-> Null, nkids |-> n] :
          n \in 1..2}
  \cup {[e |-> "orders", id |-> 1, num |-> "10.50", cust |-> c, nkids |-> 1] :
          c \in {Null, 1}}

StoreSourceChange ==
  \E c \in StoreChanges :
    /\ SourceWrite(<<"t1", c.e>>, c.id, c.num, TRUE, c.cust, c.nkids)
    /\ emitted' = IF c.e = "customers"
                  THEN emitted \cup {p \in source'[<<"t1", c.e>>] : p.id = c.id}
                  ELSE emitted
    /\ UNCHANGED <<tables, hookTables, hook, sync_checkpoints, sync_logs, aside, callers,
                   run, faults, obs, hist>>

\* A customers/update delivery of an announced payload, or of the record as
\* it first was (late and repeated deliveries included).
StoreReceive(h) ==
  \E body \in emitted \cup {Record(1, 1, "10.50", 1, 1, Null, <<>>)} :
    Receive(h, "customers/update", body, "", "t1.myshopify.com",
            Hmac(body, ""), TRUE)

StoreNext ==
  \/ StoreSourceChange
  \/ \E r \in Runs, e \in Entities : StartRun(r, "t1", e)
  \/ \E r \in Runs : FetchPage(r)
  \/ \E r \in Runs : WritePage(r)
  \/ \E r \in Runs : CompleteRun(r)
  \/ \E r \in Runs : WriteCheckpoint(r)
  \/ \E h \in StoreHooks : StoreReceive(h)
  \/ \E h \in StoreHooks : LookupTenant(h)
  \/ \E h \in StoreHooks : ClaimReceipt(h)
  \/ \E h \in StoreHooks : Mutate(h)

StoreSpec == StoreInit /\ [][StoreNext]_vars

\* ------------------------------------------------------------------ HookSpec
\* The webhook receiver alone: deliveries of the three topics, authentic and
\* not, first and repeated, with faults.
HookCustomer(ver) == Record(1, ver, "10.50", 1, ver, Null, <<>>)

CartBody(cust) == [NoRecord EXCEPT !.customer = cust]

CheckoutBody(id, cust) == [NoRecord EXCEPT !.id = id, !.customer = cust]

Request(topic, body, token, shopDomain, signature, captured) ==
  [topic |-> topic, body |-> body, token |-> token, shopDomain |-> shopDomain,
   signature |-> signature, captured |-> captured]

Authentic(topic, body, token) ==
  Request(topic, body, token, "t1.myshopify.com", Hmac(body, token), TRUE)

Requests ==
  {Authentic("customers/update", HookCustomer(v), "") : v \in 1..2}
  \cup {Authentic("carts/abandoned", CartBody(Null), tk) : tk \in Tokens}
  \cup {Authentic("carts/abandoned", CartBody(1), "abc")}
  \cup {Authentic("checkouts/create", CheckoutBody(id, Null), "abc") : id \in 1..2}
  \cup {Authentic("checkouts/create", CheckoutBody(1, 1), "abc")}
  \cup {Request("customers/update", HookCustomer(1), "", "t1.myshopify.com",
                sig, TRUE) : sig \in {<<"forged">>, <<>>}}
  \cup {Request("customers/update", HookCustomer(1), "", "gone.myshopify.com",
                Hmac(HookCustomer(1), ""), TRUE)}
  \cup {Request("customers/update", HookCustomer(1), "", "t1.myshopify.com",
                sig, FALSE) : sig \in {Hmac(HookCustomer(1), ""), <<"forged">>}}

HookInit ==
  /\ source = [k \in Keys |-> {}]
  /\ stime = 1
  /\ EmptyDb
  /\ Quiet

HookReceive(h) ==
  \E q \in Requests :
    Receive(h, q.topic, q.body, q.token, q.shopDomain, q.signature, q.captured)

HookNext ==
  \/ \E h \in Hooks : HookReceive(h)
  \/ \E h \in Hooks : LookupTenant(h)
  \/ \E h \in Hooks : ClaimReceipt(h)
  \/ \E h \in Hooks : LookupHookCustomer(h)
  \/ \E h \in Hooks : Mutate(h)
  \/ \E h \in Hooks : HookFault(h)

HookSpec == HookInit /\ [][HookNext]_vars

\* ------------------------------------------------------------------ SweepSpec
\* runScheduledIngestion: one sweep over the tenants table, each tenant's
\* three ingests run one after the other in run slot 1.
Ingests == <<"customers", "products", "orders">>

\* What a tenants row is to the sweep: ok, no_token (access_token NULL),
\* bad_token (decryptToken throws), inactive (status is not 'active').
TenantKinds == {"ok", "no_token", "bad_token", "inactive"}

TenantOrder == <<"t1", "t2">>

\* As ActiveTenants, but the query has no WHERE clause.
EveryTenant(rows) == SelectSeq(TenantOrder, LAMBDA t : TRUE)

\* SELECT id, shop_domain, access_token FROM tenants WHERE status = 'active'
ActiveTenants(rows) == SelectSeq(TenantOrder, LAMBDA t : rows[t] # "inactive")

\* The sweep's query returns the active tenants.
SweepBegin(rows) ==
  /\ sweep.pc = "idle"
  /\ sweep' = [sweep EXCEPT !.pc = "tenant", !.rows = rows,
                            !.todo = ActiveTenants(rows)]
  /\ UNCHANGED <<source, stime, tables, hookTables, hookVars, sync_checkpoints,
                 sync_logs, aside, trigger, run, faults, obs, hist>>

\* The sweep's query fails: the outer catch logs it and the sweep returns.
SweepBeginFault ==
  /\ sweep.pc = "idle"
  /\ faults < MaxFaults
  /\ faults' = faults + 1
  /\ sweep' = [sweep EXCEPT !.pc = "done", !.fatal = TRUE]
  /\ UNCHANGED <<source, stime, tables, hookTables, hookVars, sync_checkpoints,
                 sync_logs, aside, trigger, run, obs, hist>>

\* for (const t of tenants.rows): a tenant without a usable token is skipped.
SweepTenant ==
  /\ sweep.pc = "tenant"
  /\ IF sweep.todo = <<>>
     THEN sweep' = [sweep EXCEPT !.pc = "done"]
     ELSE LET t == Head(sweep.todo) IN
          IF sweep.rows[t] \in {"no_token", "bad_token"}
          THEN sweep' = [sweep EXCEPT !.todo = Tail(@), !.visited = @ \cup {t}]
          ELSE sweep' = [sweep EXCEPT !.todo = Tail(@), !.visited = @ \cup {t},
                                      !.attempted = @ \cup {t},
                                      !.tenant = t, !.step = 1, !.pc = "ingest"]
  /\ UNCHANGED <<source, stime, tables, hookTables, hookVars, sync_checkpoints,
                 sync_logs, aside, trigger, run, faults, obs, hist>>

\* await ingestionService.ingestCustomers / ingestProducts / ingestOrders
SweepIngest ==
  /\ sweep.pc = "ingest"
  /\ StartRun(1, sweep.tenant, Ingests[sweep.step])

\* The ingest call throws before its try block.
SweepIngestFault ==
  /\ sweep.pc = "ingest"
  /\ \E logged \in BOOLEAN :
       StartFault(1, sweep.tenant, Ingests[sweep.step], logged)

\* As SweepCollect, but a tenant's error is not caught inside the loop: it
\* reaches the outer catch and ends the sweep.
SweepCollectNoCatch ==
  /\ sweep.pc = "ingest"
  /\ run[1].pc \in {"done", "failed", "thrown"}
  /\ sweep' =
       IF run[1].pc = "done"
       THEN IF sweep.step < Len(Ingests)
            THEN [sweep EXCEPT !.step = @ + 1]
            ELSE [sweep EXCEPT !.pc = "tenant", !.finished = @ \cup {sweep.tenant}]
       ELSE [sweep EXCEPT !.pc = "done", !.fatal = TRUE]
  /\ run' = [run EXCEPT ![1] = IdleRun]
  /\ obs' = [obs EXCEPT ![1] = NoObs]
  /\ UNCHANGED <<source, stime, tables, hookTables, hookVars, sync_checkpoints,
                 sync_logs, aside, trigger, faults, hist>>

\* The ingest call has returned (the next one is due) or thrown (the catch
\* inside the loop logs the error and the loop goes on to the next tenant).
SweepCollect ==
  /\ sweep.pc = "ingest"
  /\ run[1].pc \in {"done", "failed", "thrown"}
  /\ sweep' =
       IF run[1].pc = "done"
       THEN IF sweep.step < Len(Ingests)
            THEN [sweep EXCEPT !.step = @ + 1]
            ELSE [sweep EXCEPT !.pc = "tenant", !.finished = @ \cup {sweep.tenant}]
       ELSE [sweep EXCEPT !.pc = "tenant", !.caught = @ \cup {sweep.tenant}]
  /\ run' = [run EXCEPT ![1] = IdleRun]
  /\ obs' = [obs EXCEPT ![1] = NoObs]
  /\ UNCHANGED <<source, stime, tables, hookTables, hookVars, sync_checkpoints,
                 sync_logs, aside, trigger, faults, hist>>

\* Every tenant's store holds one record of each collection.
CallerInit ==
  /\ source = [k \in Keys |->
                 {Record(1, 1, "10.50", 1, 1, Null,
                         IF k[2] = "customers" THEN <<>>
                         ELSE Kids(1, 1, 1, "10.50"))}]
  /\ stime = 1
  /\ EmptyDb
  /\ Quiet

SweepNext ==
  \/ \E rows \in [Tenants -> TenantKinds] : SweepBegin(rows)
  \/ SweepBeginFault
  \/ SweepTenant
  \/ SweepIngest
  \/ SweepIngestFault
  \/ SweepCollect
  \/ FetchPage(1)
  \/ FetchFault(1)
  \/ WritePage(1)
  \/ WriteFault(1)
  \/ CompleteRun(1)
  \/ CompleteFault(1)
  \/ WriteCheckpoint(1)
  \/ CheckpointFault(1)

SweepSpec == CallerInit /\ [][SweepNext]_vars

\* ------------------------------------------------------------------ TriggerSpec
\* POST /tenants/:tenantId/ingest, as routes/api.ts and as middleware/response.ts
\* define it: one request, its ingests run one after the other in run slot 1.
Routes == {"routes/api", "middleware/response"}

\* What the request's tenant id is: the id of a tenant as in TenantKinds, a
\* well-formed id of no tenant (unknown), or no UUID at all (malformed).
TriggerKinds == {"ok", "no_token", "bad_token", "unknown", "malformed"}

\* The tenant lookup and the checks before the first ingest call.
\* tenants.id is a UUID: the lookup of a malformed id throws (catch: 500).
Precheck(route, kind) ==
  CASE kind = "malformed" -> 500
    [] kind = "unknown" -> 404
    [] kind = "no_token" /\ route = "middleware/response" -> 400
    [] kind = "bad_token" /\ route = "middleware/response" -> 500
    [] OTHER -> 0

TriggerReceive(route, kind) ==
  /\ trigger.pc = "idle"
  /\ LET status == Precheck(route, kind)
     IN trigger' = [trigger EXCEPT !.route = route, !.kind = kind,
                                   !.status = status,
                                   !.pc = IF status = 0 THEN "ingest" ELSE "done"]
  /\ UNCHANGED <<source, stime, tables, hookTables, hookVars, sync_checkpoints,
                 sync_logs, aside, sweep, run, faults, obs, hist>>

\* results[...] = await ingestionService.ingestCustomers / Products / Orders
TriggerIngest ==
  /\ trigger.pc = "ingest"
  /\ StartRun(1, "t1", Ingests[trigger.step])

TriggerIngestFault ==
  /\ trigger.pc = "ingest"
  /\ \E logged \in BOOLEAN : StartFault(1, "t1", Ingests[trigger.step], logged)

\* The page request of a tenant whose token is usable.
TriggerFetch ==
  /\ trigger.kind = "ok"
  /\ FetchPage(1)

\* The page request made with a missing or undecrypted token: the source
\* refuses it, and the run's catch block marks the log failed.
RejectedFetch ==
  /\ trigger.kind # "ok"
  /\ run[1].pc = "fetch"
  /\ sync_logs' = CompleteSyncLog(sync_logs, run[1].logId, "failed",
                                  run[1].totalProcessed, "error")
  /\ run' = [run EXCEPT ![1].pc = "failed"]
  /\ UNCHANGED <<source, stime, tables, hookTables, hookVars, sync_checkpoints, aside,
                 callers, faults, obs, hist>>

\* The ingest call has returned (the next one is due, or res.json success)
\* or thrown (catch: 500 Data ingestion failed).
TriggerCollect ==
  /\ trigger.pc = "ingest"
  /\ run[1].pc \in {"done", "failed", "thrown"}
  /\ trigger' =
       IF run[1].pc = "done"
       THEN IF trigger.step < Len(Ingests)
            THEN [trigger EXCEPT !.step = @ + 1]
            ELSE [trigger EXCEPT !.pc = "done", !.status = 200]
       ELSE [trigger EXCEPT !.pc = "done", !.status = 500]
  /\ run' = [run EXCEPT ![1] = IdleRun]
  /\ obs' = [obs EXCEPT ![1] = NoObs]
  /\ UNCHANGED <<source, stime, tables, hookTables, hookVars, sync_checkpoints,
                 sync_logs, aside, sweep, faults, hist>>

TriggerNext ==
  \/ \E route \in Routes, kind \in TriggerKinds : TriggerReceive(route, kind)
  \/ TriggerIngest
  \/ TriggerIngestFault
  \/ TriggerFetch
  \/ RejectedFetch
  \/ TriggerCollect
  \/ FetchFault(1)
  \/ WritePage(1)
  \/ WriteFault(1)
  \/ CompleteRun(1)
  \/ CompleteFault(1)
  \/ WriteCheckpoint(1)
  \/ CheckpointFault(1)

TriggerSpec == CallerInit /\ [][TriggerNext]_vars

\* ------------------------------------------------------------------ PageSpec
\* The page transactions of product and order runs: parents with children,
\* several pages, a failure at any statement of a page, overlapping runs.
PageEntities == {"products", "orders"}

PageInit ==
  /\ \E n \in 1..MaxId :
       source = [k \in Keys |->
                   IF k[1] = "t1" /\ k[2] \in PageEntities
                   THEN {Record(id, 1, "10.50", 1, 1, Null, Kids(id, 2, 1, "10.50")) :
                           id \in 1..n}
                   ELSE {}]
  /\ stime = 1
  /\ EmptyDb
  /\ Quiet

PageNext ==
  \/ \E r \in Runs, e \in PageEntities : StartRun(r, "t1", e)
  \/ \E r \in Runs : FetchPage(r)
  \/ \E r \in Runs : FetchFault(r)
  \/ \E r \in Runs : WritePage(r)
  \/ \E r \in Runs : WriteFault(r)
  \/ \E r \in Runs : CompleteRun(r)
  \/ \E r \in Runs : WriteCheckpoint(r)

PageSpec == PageInit /\ [][PageNext]_vars

\* ------------------------------------------------------------------ DrainSpec
\* Customer runs over a store whose records may also be deleted, so that a
\* run can meet an empty store after earlier runs have filled the tables.
SourceDelete ==
  \E k \in Keys : \E p \in source[k] :
    /\ source' = [source EXCEPT ![k] = @ \ {p}]
    /\ UNCHANGED <<stime, tables, hookTables, hookVars, sync_checkpoints, sync_logs,
                   aside, callers, run, faults, obs, hist>>

DrainInit ==
  /\ \E n \in 0..PageSize : source = InitSource(n)
  /\ stime = 1
  /\ EmptyDb
  /\ Quiet

DrainNext ==
  \/ SourceDelete
  \/ \E r \in Runs, e \in SyncEntities : StartRun(r, "t1", e)
  \/ \E r \in Runs : FetchPage(r)
  \/ \E r \in Runs : FetchFault(r)
  \/ \E r \in Runs : WritePage(r)
  \/ \E r \in Runs : CompleteRun(r)
  \/ \E r \in Runs : CompleteFault(r)
  \/ \E r \in Runs : WriteCheckpoint(r)

DrainSpec == DrainInit /\ [][DrainNext]_vars

\* ------------------------------------------------------------------ QuerySpec
\* Database.query: one statement, issued on a pooled connection and issued
\* again after a connection error, over the tables the statement writes.
MAX_RETRIES == 3

MaxCalls == 2

\* The statements: createSyncLog's insert and a handler's receipt insert.
Statements == {"createSyncLog", "receipt"}

\* What an attempt can throw: error.code ECONNRESET, a message holding
\* 'Connection terminated', the unique violation 23505, anything else.
ErrorClasses == {"ECONNRESET", "Connection terminated", "23505", "other"}

\* As Retriable, but every error is retried.
RetriableAlways(err) == TRUE

\* error.code === 'ECONNRESET' || error.message.includes('Connection terminated')
Retriable(err) == err \in {"ECONNRESET", "Connection terminated"}

\* The receipt the statement inserts: customers/update of customer 1.
CallConflict(stmt) ==
  /\ stmt = "receipt"
  /\ ReceiptConflict(webhook_receipts, "t1", "customers/update", 1)

\* A caller awaits Database.query(text, params).
QueryCall(stmt) ==
  /\ call.pc \in {"idle", "returned", "thrown"}
  /\ call.calls < MaxCalls
  /\ call' = [IdleCall EXCEPT !.pc = "attempt", !.stmt = stmt,
                              !.fresh = ~CallConflict(stmt),
                              !.calls = call.calls + 1]
  /\ UNCHANGED <<source, stime, tables, hookTables, hookVars, sync_checkpoints,
                 sync_logs, now, timer, callers, run, faults, obs, hist>>

\* One pass of the loop: pool.connect(), client.query(text, params), and the
\* catch. The attempt ends with a result (err is none) or with an error; a
\* connection that breaks may do so before the server has executed the
\* statement or after it (took), and the client cannot tell which.
QueryAttempt(err, took) ==
  /\ call.pc = "attempt"
  /\ err = "none" => took /\ ~CallConflict(call.stmt)
  /\ err = "23505" => CallConflict(call.stmt)
  /\ err \in {"23505", "other"} => ~took
  /\ took => ~CallConflict(call.stmt)
  /\ sync_logs' =
       IF took /\ call.stmt = "createSyncLog"
       THEN CreateSyncLog(sync_logs, "t1", "customers") ELSE sync_logs
  /\ webhook_receipts' =
       IF took /\ call.stmt = "receipt"
       THEN InsertReceipt(webhook_receipts, "t1", "customers/update", 1)
       ELSE webhook_receipts
  /\ call' =
       LET seen == [call EXCEPT !.applied = IF took THEN @ + 1 ELSE @,
                                !.errors = IF err = "none" THEN @ ELSE Append(@, err)]
       IN IF err = "none" THEN [seen EXCEPT !.pc = "returned"]
          ELSE IF Retriable(err) /\ call.i < MAX_RETRIES - 1
               THEN [seen EXCEPT !.i = @ + 1]
               ELSE [seen EXCEPT !.pc = "thrown", !.error = err]
  /\ UNCHANGED <<source, stime, tables, custom_events, hookVars, sync_checkpoints,
                 now, timer, callers, run, faults, obs, hist>>

QueryInit ==
  /\ source = [k \in Keys |-> {}]
  /\ stime = 1
  /\ EmptyDb
  /\ Quiet

QueryNext ==
  \/ \E stmt \in Statements : QueryCall(stmt)
  \/ \E err \in {"none"} \cup ErrorClasses, took \in BOOLEAN : QueryAttempt(err, took)

\* The event loop resumes the call when the attempt's promise settles.
QuerySpec ==
  /\ QueryInit
  /\ [][QueryNext]_vars
  /\ WF_vars(\E err \in {"none"} \cup ErrorClasses, took \in BOOLEAN :
               QueryAttempt(err, took))

\* ------------------------------------------------------------------ TimerSpec
\* setTimeout(runScheduledIngestion, 30_000) and
\* setInterval(runScheduledIngestion, SIX_HOURS_MS): each timer callback is an
\* invocation of runScheduledIngestion. The sweep machine follows the
\* invocation that began first; one that began while it ran takes its steps
\* once the first has returned.
MaxTicks == 2

\* A timer fires (the timeout first, then the interval's ticks): the callback
\* is invoked, whatever earlier invocations are doing.
TimerFire ==
  /\ timer.fired < MaxTicks
  /\ timer' = [timer EXCEPT !.fired = @ + 1, !.inflight = @ + 1]
  /\ UNCHANGED <<source, stime, tables, hookTables, hookVars, sync_checkpoints,
                 sync_logs, now, call, callers, run, faults, obs, hist>>

\* An invocation issues its tenants query.
TimerSweepBegin(rows) ==
  /\ timer.inflight > 0
  /\ SweepBegin(rows)

\* The invocation's promise settles after 'Completed scheduled ingestion run'.
SweepReturn ==
  /\ sweep.pc = "done"
  /\ timer.inflight > 0
  /\ timer' = [timer EXCEPT !.inflight = @ - 1]
  /\ sweep' = IdleSweep
  /\ UNCHANGED <<source, stime, tables, hookTables, hookVars, sync_checkpoints,
                 sync_logs, now, call, trigger, run, faults, obs, hist>>

TimerNext ==
  \/ TimerFire
  \/ \E rows \in [Tenants -> {"ok", "no_token"}] : TimerSweepBegin(rows)
  \/ SweepTenant
  \/ SweepIngest
  \/ SweepCollect
  \/ SweepReturn
  \/ FetchPage(1)
  \/ WritePage(1)
  \/ CompleteRun(1)
  \/ WriteCheckpoint(1)

TimerSpec == CallerInit /\ [][TimerNext]_vars

\* ------------------------------------------------------------------ StaticSpec
\* Customer runs against a store that does not change while they run. Each
\* run is an async function of its own: once the promise it awaits settles,
\* the event loop resumes it.
RunStep(r) == FetchPage(r) \/ WritePage(r) \/ CompleteRun(r) \/ WriteCheckpoint(r)

StaticNext ==
  \/ \E r \in Runs, e \in SyncEntities : StartRun(r, "t1", e)
  \/ \E r \in Runs : FetchPage(r)
  \/ \E r \in Runs : FetchFault(r)
  \/ \E r \in Runs : WritePage(r)
  \/ \E r \in Runs : WriteFault(r)
  \/ \E r \in Runs : CompleteRun(r)
  \/ \E r \in Runs : WriteCheckpoint(r)

StaticSpec == Init /\ [][StaticNext]_vars /\ \A r \in Runs : WF_vars(RunStep(r))

\* ------------------------------------------------------------------ TenantSpec
\* Two tenants whose stores hold records of the same external ids: runs and
\* deliveries of both, interleaved.
TenantEntities == {"customers", "orders"}

TenantVer(t) == IF t = "t1" THEN 1 ELSE 2

TenantInit ==
  /\ source = [k \in Keys |->
                 {Record(1, TenantVer(k[1]), "10.50", 1, TenantVer(k[1]),
                         IF k[2] = "orders" THEN 1 ELSE Null,
                         IF k[2] = "customers" THEN <<>>
                         ELSE Kids(1, 1, TenantVer(k[1]), "10.50"))}]
  /\ stime = 2
  /\ EmptyDb
  /\ Quiet

DomainOf(t) == IF t = "t1" THEN "t1.myshopify.com" ELSE "t2.myshopify.com"

TenantRequests ==
  UNION {{Request("customers/update", HookCustomer(TenantVer(t)), "", DomainOf(t),
                  Hmac(HookCustomer(TenantVer(t)), ""), TRUE),
          Request("carts/abandoned", CartBody(1), "abc", DomainOf(t),
                  Hmac(CartBody(1), "abc"), TRUE)} : t \in Tenants}

TenantReceive(h) ==
  \E q \in TenantRequests :
    Receive(h, q.topic, q.body, q.token, q.shopDomain, q.signature, q.captured)

TenantNext ==
  \/ \E r \in Runs, t \in Tenants, e \in TenantEntities : StartRun(r, t, e)
  \/ \E r \in Runs : FetchPage(r)
  \/ \E r \in Runs : WritePage(r)
  \/ \E r \in Runs : CompleteRun(r)
  \/ \E r \in Runs : WriteCheckpoint(r)
  \/ \E h \in Hooks : TenantReceive(h)
  \/ \E h \in Hooks : LookupTenant(h)
  \/ \E h \in Hooks : ClaimReceipt(h)
  \/ \E h \in Hooks : LookupHookCustomer(h)
  \/ \E h \in Hooks : Mutate(h)

TenantSpec == TenantInit /\ [][TenantNext]_vars

\* ------------------------------------------------------------------ properties
EntityTables == {customers, products, product_variants, orders, order_line_items}

Unique(tbl) ==
  \A r1 \in tbl : \A r2 \in tbl :
    (r1.tenant_id = r2.tenant_id /\ r1.ext = r2.ext) => r1 = r2

Ingested(e) == {key \in HistKeys : key[1] = e /\ hist[key].n > 0}

\* C1: under any interleaving of sync runs and customer webhooks, no two rows
\* of customers, products, product_variants, orders or order_line_items share
\* (tenant_id, external id), and an entity table has exactly one row per
\* external id ever ingested: re-ingestion updates in place.
OneRowPerExternalId ==
  /\ \A tbl \in EntityTables : Unique(tbl)
  /\ \A e \in Entities : Cardinality(ParentTable(e)) = Cardinality(Ingested(e))

\* A customer written by a sync run and then again by a webhook: one row.
ReingestedByBothPaths ==
  LET h == hist[<<"customers", "t1", 1>>]
  IN h.n >= 2 /\ h.path = "webhook" /\ Cardinality(customers) = 1

\* The deliveries that share delivery h's receipt key.
SameEvent(h) ==
  {g \in Hooks :
     /\ hook[g].tenant = hook[h].tenant
     /\ hook[g].topic = hook[h].topic
     /\ ExternalId(hook[g].topic, hook[g].body, hook[g].token)
          = ExternalId(hook[h].topic, hook[h].body, hook[h].token)}

RECURSIVE Mutations(_)
Mutations(H) ==
  IF H = {} THEN 0
  ELSE LET h == CHOOSE g \in H : TRUE IN hook[h].mutations + Mutations(H \ {h})

\* C2: when the same (tenant, topic, external id) webhook, carrying an
\* external id, has been delivered two or more times and every delivery was
\* answered without a storage error, every answer is 200 and the deliveries
\* together made exactly one data mutation.
DuplicateDeliveryIsNoOp ==
  \A h \in Hooks :
    LET same == SameEvent(h) IN
    ( /\ hook[h].tenant # NoTenant
      /\ ExternalId(hook[h].topic, hook[h].body, hook[h].token) # Null
      /\ Cardinality(same) >= 2
      /\ \A g \in same : hook[g].pc = "done" /\ ~hook[g].faulted )
    => /\ \A g \in same : hook[g].status = 200
       /\ Mutations(same) = 1

\* The cart-abandoned webhook with token "abc" delivered twice: one event row.
CartDeliveredTwice ==
  /\ \A h \in Hooks :
       /\ hook[h].pc = "done" /\ hook[h].status = 200
       /\ hook[h].topic = "carts/abandoned" /\ hook[h].token = "abc"
  /\ Cardinality(custom_events) = 1
  /\ Cardinality(webhook_receipts) = 1

\* C3: a checkpoint that exists is never removed and never decreases, under
\* sequential, failed and overlapping runs; a run's checkpoint write stores
\* the greater of the stored value and the run's maximum.
CheckpointNeverDecreases ==
  [][ /\ \A k \in Keys : sync_checkpoints[k] # Null =>
                           sync_checkpoints'[k] >= sync_checkpoints[k]
      /\ \A r \in Runs :
           (run[r].pc = "checkpoint" /\ run'[r].pc = "done") =>
             sync_checkpoints'[RunKey(r)] =
               Max(sync_checkpoints[RunKey(r)], run[r].maxUpdatedInRun) ]_vars

\* A run has written its checkpoint while a greater one was stored.
LowerCheckpointWritten ==
  \E r \in Runs :
    /\ run[r].pc = "done" /\ run[r].totalProcessed > 0
    /\ run[r].maxUpdatedInRun < sync_checkpoints[RunKey(r)]

\* C4: a run that fails after processing N > 0 records, with no other run of
\* its (tenant, entity) in progress during it, leaves the checkpoint as it was
\* when the run started (absent stays absent).
FailedRunLeavesCheckpoint ==
  \A r \in Runs :
    (run[r].pc = "failed" /\ run[r].totalProcessed > 0 /\ obs[r].alone)
    => sync_checkpoints[RunKey(r)] = obs[r].ckptAtStart

\* Such a run has failed with records newer than the checkpoint behind it.
FailedAfterNewerRecords ==
  \E r \in Runs :
    /\ run[r].pc = "failed" /\ run[r].totalProcessed > 0 /\ obs[r].alone
    /\ obs[r].ckptAtStart # Null
    /\ run[r].maxUpdatedInRun > obs[r].ckptAtStart

\* The effective timestamps of the records written by the completed runs of k.
DoneTs(k) ==
  UNION {obs[r].seenTs : r \in {q \in Runs : run[q].pc = "done" /\ RunKey(q) = k}}

\* C5: the checkpoint of a (tenant, entity) is the maximum effective timestamp
\* (updated_at, else created_at) over the records written by its successfully
\* completed runs, and is absent when they wrote none.
CheckpointIsMaxOfCompleted ==
  \A k \in Keys : sync_checkpoints[k] = SetMax(DoneTs(k))

\* Two completed runs, one of which wrote a record that has no updated_at.
CompletedWithCreatedAtOnly ==
  /\ \A r \in Runs : run[r].pc = "done" /\ run[r].totalProcessed > 0
  /\ \E r \in Runs : \E p \in source[RunKey(r)] :
       p.updated_at = Null /\ <<p.id, p.ver>> \in obs[r].wrote

\* C6: a completed run that started from a stored checkpoint has written
\* every record the source held when it started, in that version or a later
\* one: nothing changed before it is missed.
NextRunMissesNothing ==
  \A r \in Runs :
    (run[r].pc = "done" /\ run[r].lastUpdatedAt # Null)
    => \A b \in obs[r].base :
         \E w \in obs[r].wrote : w[1] = b[1] /\ w[2] >= b[2]

\* Such a run started while a record not newer than the checkpoint had its
\* latest version not stored.
CaughtUpBehindCheckpoint ==
  \E r \in Runs :
    /\ run[r].pc = "done" /\ run[r].lastUpdatedAt # Null
    /\ obs[r].missed # {}

\* C7: no page is requested after an empty or short page, and a run that left
\* the loop has written and counted every record of every page it fetched,
\* the short last page included.
PaginationStopsAtShortPage ==
  \A r \in Runs :
    /\ ~obs[r].fetchAfterShort
    /\ run[r].pc \in {"complete", "checkpoint", "done"} =>
         /\ run[r].totalProcessed = obs[r].fetched
         /\ Cardinality(obs[r].wrote) = obs[r].fetched

\* A run has completed whose last page was short and not empty.
StoppedAfterShortPage ==
  \E r \in Runs :
    /\ run[r].pc = "done" /\ obs[r].shortSeen
    /\ obs[r].fetched > PageSize
    /\ obs[r].fetched % PageSize # 0

\* The columns of a customer row that come from the payload.
SourceFields(r) ==
  <<r.ext, r.data, r.kept, r.num, r.shopify_created_at, r.shopify_updated_at>>

\* C8: applying to a customer row the payload that was applied to it last
\* (by a second sync run, or by a webhook after a sync run) leaves one row
\* with the same source-derived field values.
SamePayloadSameRow ==
  [][ \A key \in HistKeys :
        ( /\ key[1] = "customers"
          /\ hist[key].n >= 1
          /\ hist'[key].n = hist[key].n + 1
          /\ hist'[key].last = hist[key].last )
        => /\ Cardinality(Hit(customers', key[2], key[3])) = 1
           /\ \A old \in Hit(customers, key[2], key[3]) :
                \A new \in Hit(customers', key[2], key[3]) :
                  SourceFields(new) = SourceFields(old) ]_vars

\* C9 as stated: once a newer version of a customer has been applied, the row
\* holds the newest version ever applied, whatever arrives later.
NewestVersionWins ==
  \A key \in HistKeys :
    (key[1] = "customers" /\ hist[key].n > 0)
    => \A r \in Hit(customers, key[2], key[3]) : r.data = SetMax(hist[key].vers)

\* C9, amended: a customer row holds the values of the payload applied to it
\* last, by a sync run or by a webhook, whatever its version.
LastWriteWins ==
  \A key \in HistKeys :
    (key[1] = "customers" /\ hist[key].n > 0)
    => /\ Hit(customers, key[2], key[3]) # {}
       /\ \A r \in Hit(customers, key[2], key[3]) :
            /\ r.data = hist[key].last.ver
            /\ r.shopify_updated_at = hist[key].last.updated_at
            /\ r.num = IF hist[key].path = "sync"
                       THEN ParseFloat(hist[key].last.num)
                       ELSE ParseFloat(OrZero(hist[key].last.num))

\* A webhook carrying an older version was applied over a newer stored one.
StaleWebhookApplied ==
  \E key \in HistKeys :
    /\ key[1] = "customers" /\ hist[key].path = "webhook"
    /\ \E r \in Hit(customers, key[2], key[3]) : r.data < SetMax(hist[key].vers)

\* C10: a step that writes customers or custom_events is the data write of a
\* delivery whose receipt row was inserted before it, and a delivery whose
\* receipt insert met the uniqueness violation writes nothing.
ReceiptGatesMutation ==
  [][ /\ (customers' # customers \/ custom_events' # custom_events) =>
           \E h \in Hooks :
             /\ hook[h].pc = "mutate" /\ hook'[h].pc = "done"
             /\ hook[h].claimed
             /\ \E row \in webhook_receipts :
                  /\ row.tenant_id = hook[h].tenant
                  /\ row.topic = hook[h].topic
                  /\ row.external_id =
                       ExternalId(hook[h].topic, hook[h].body, hook[h].token)
      /\ \A h \in Hooks :
           hook'[h].mutations > hook[h].mutations => hook[h].claimed ]_vars

\* One delivery has claimed its receipt and written; a second one of the same
\* event was answered 200 as a duplicate and wrote nothing.
ClaimedThenDuplicate ==
  \E h \in Hooks : \E g \in Hooks :
    /\ hook[h].claimed /\ hook[h].mutations = 1 /\ hook[h].status = 200
    /\ g \in SameEvent(h) /\ ~hook[g].claimed
    /\ hook[g].pc = "done" /\ hook[g].status = 200 /\ hook[g].mutations = 0

\* C11: a delivery whose signature header is not the HMAC of its body (a
\* missing header included) is answered 401 as soon as it arrives, and no
\* step of it changes the receipt table, a data table or the sync logs.
ForgedIsUnauthorized ==
  [][ \A h \in Hooks :
        (hook'[h].pc # "idle" /\ hook'[h].signature # Hmac(hook'[h].body, hook'[h].token))
        => /\ hook'[h].pc = "done" /\ hook'[h].status = 401
           /\ hook'[h] # hook[h] =>
                UNCHANGED <<tables, hookTables, sync_logs>> ]_vars

\* C12: a SyncLog row that has reached 'completed' or 'failed' is never
\* changed again (status, processed count, error text), and a 'running' row
\* changes only to 'completed' or 'failed'.
TerminalLogIsFinal ==
  [][ \A i \in 1..Len(sync_logs) :
        /\ sync_logs[i].status \in {"completed", "failed"} =>
             sync_logs'[i] = sync_logs[i]
        /\ sync_logs'[i] # sync_logs[i] =>
             sync_logs'[i].status \in {"completed", "failed"} ]_vars

PageStored(r) ==
  \A p \in Range(run[r].page) :
    /\ \E row \in Hit(ParentTable(run[r].entity)', run[r].tenant, p.id) :
         row.data = p.ver
    /\ \A c \in Range(p.children) :
         \E row \in Hit(IF run[r].entity = "products" THEN product_variants'
                         ELSE order_line_items', run[r].tenant, c.id) :
           row.data = c.ver

\* C14: a page is written in one transaction: the step in which a write of
\* page k fails leaves the five entity tables as they were (no row of page k),
\* the step in which it succeeds stores every record of the page with its
\* children, and the rows of the pages a run committed earlier are still
\* there after it has failed.
PageIsAtomic ==
  [][ \A r \in Runs :
        /\ (run[r].pc = "write" /\ run'[r].pc = "failed") =>
             /\ UNCHANGED tables
             /\ \A w \in obs[r].wrote :
                  Hit(ParentTable(run[r].entity)', run[r].tenant, w[1]) # {}
        /\ (run[r].pc = "write" /\ run'[r].pc \in {"fetch", "complete"}) =>
             PageStored(r) ]_vars

\* A product run has failed on its second page: the first page's products
\* and variants are stored, the second page's are not.
SecondPageRolledBack ==
  \E r \in Runs :
    /\ run[r].pc = "failed" /\ run[r].entity = "products"
    /\ run[r].totalProcessed = PageSize /\ obs[r].fetched > PageSize
    /\ Cardinality(products) = PageSize
    /\ Cardinality(product_variants) = 2 * PageSize

\* The tenants a sweep has to ingest: active, with a token that decrypts.
Eligible(rows) == {t \in Tenants : rows[t] = "ok"}

\* C15: a sweep whose tenants query succeeded ends only after it has visited
\* every active tenant and started the ingestion of every one that has a
\* usable token, whatever failed for the tenants before it; each tenant it
\* ingested either finished or had its error caught inside the loop, and no
\* tenant's error ends the sweep.
SweepVisitsEveryTenant ==
  /\ (sweep.pc = "done" /\ ~sweep.fatal) =>
       /\ sweep.visited = {t \in Tenants : sweep.rows[t] # "inactive"}
       /\ sweep.attempted = Eligible(sweep.rows)
       /\ sweep.attempted = sweep.finished \cup sweep.caught
  /\ sweep.fatal => sweep.attempted = {}

\* The first tenant's ingestion failed and was caught; the second tenant was
\* ingested to the end.
SweepWentOnAfterFailure ==
  /\ sweep.pc = "done"
  /\ sweep.caught = {"t1"}
  /\ sweep.finished = {"t2"}

\* No ingest was attempted: no SyncLog row, no run started.
NothingAttempted == sync_logs = <<>> /\ run[1].pc = "idle"

\* C16: a manual ingestion request for a tenant id that does not exist is
\* answered 404, and one for a tenant without a credential is answered with
\* the precondition error (400); in both cases no run is started, no page
\* is fetched and no SyncLog row is created.
ManualPreconditions ==
  trigger.pc # "idle" =>
    /\ trigger.kind \in {"unknown", "malformed"} =>
         trigger.pc = "done" /\ trigger.status = 404 /\ NothingAttempted
    /\ trigger.kind = "no_token" =>
         trigger.pc = "done" /\ trigger.status = 400 /\ NothingAttempted

\* The columns of mutable source fields that the INSERT of a table sets and
\* its DO UPDATE SET does not (shopify_created_at, set once, is not one).
InsertOnlyMutable(table) ==
  IF table = "orders" THEN {"currency", "shipping_address", "billing_address"}
  ELSE {}

ChildTable(e) == IF e = "products" THEN "product_variants" ELSE "order_line_items"

TableOf(name) == Snapshot[name]

\* The row carries the incoming version in every mutable column.
Overwritten(row, ver, table) ==
  row.data = ver /\ (InsertOnlyMutable(table) # {} => row.kept = ver)

\* The row has an updated_at column and the statement set it to NOW().
Refreshed(row, at) == "updated_at" \in DOMAIN row /\ row.updated_at = at

\* C17: a committed page write that meets an existing (tenant, external id)
\* row - of customers, products, variants, orders or line items - leaves
\* every mutable column of the row equal to the incoming record's value and
\* the row's local updated_at set to the time of the write.
ConflictOverwritesEveryField ==
  [][ \A r \in Runs :
        (run[r].pc = "write" /\ run'[r].pc \in {"fetch", "complete"}) =>
          LET e == run[r].entity
              t == run[r].tenant
          IN \A p \in Range(run[r].page) :
               /\ Hit(TableOf(e), t, p.id) # {} =>
                    \A row \in Hit(TableOf(e)', t, p.id) :
                      Overwritten(row, p.ver, e) /\ Refreshed(row, now')
               /\ \A c \in Range(p.children) :
                    Hit(TableOf(ChildTable(e)), t, c.id) # {} =>
                      \A row \in Hit(TableOf(ChildTable(e))', t, c.id) :
                        Overwritten(row, c.ver, ChildTable(e))
                        /\ Refreshed(row, now') ]_vars

\* The rows of tenant t in a table.
RowsOf(tbl, t) == {row \in tbl : row.tenant_id = t}

\* The children the source holds under key k.
SourceChildren(k) == UNION {Range(p.children) : p \in source[k]}

\* C18: the first run of a store (its tables are empty when it starts) that
\* returns success over a source of N distinct records has left exactly N
\* parent rows for the tenant and one child row per child, returns
\* processed = N, and its SyncLog row is 'completed' with processed = N.
FirstRunStoresEveryRecord ==
  \A r \in Runs :
    (run[r].pc = "done" /\ run[r].logId = 1) =>
      LET k == RunKey(r)
          N == Cardinality(source[k])
      IN /\ Cardinality(RowsOf(TableOf(k[2]), k[1])) = N
         /\ {row.ext : row \in RowsOf(TableOf(k[2]), k[1])} = {p.id : p \in source[k]}
         /\ Cardinality(RowsOf(TableOf(ChildTable(k[2])), k[1]))
              = Cardinality(SourceChildren(k))
         /\ run[r].totalProcessed = N
         /\ sync_logs[1].status = "completed"
         /\ sync_logs[1].records_processed = N
         /\ sync_logs[1].tenant_id = k[1] /\ sync_logs[1].sync_type = k[2]

\* Three orders, fetched in two pages by the first run, are stored.
ThreeOrdersStored ==
  \E r \in Runs :
    /\ run[r].pc = "done" /\ run[r].logId = 1 /\ run[r].entity = "orders"
    /\ run[r].totalProcessed = 3
    /\ Cardinality(orders) = 3
    /\ sync_logs[1].records_processed = 3

\* Run r has fetched its first page and the page was empty.
FirstPageEmpty(r) ==
  run[r].pc \in {"complete", "done"} /\ obs[r].fetched = 0

\* C19: a run whose first fetched page is empty writes nothing from there on:
\* each of its steps leaves the entity tables and the checkpoint row as they
\* are, it skips the checkpoint upsert, and unless completeSyncLog itself
\* fails it ends with processed = 0 and its SyncLog row 'completed' with 0.
EmptyRunWritesNothing ==
  [][ /\ \A r \in Runs :
           (run'[r] # run[r] /\ FirstPageEmpty(r)') =>
             /\ UNCHANGED <<tables, sync_checkpoints>>
             /\ run'[r].totalProcessed = 0
             /\ run'[r].pc = "done" =>
                  /\ sync_logs'[run[r].logId].status = "completed"
                  /\ sync_logs'[run[r].logId].records_processed = 0
      /\ \A q \in Runs :
           (run[q].pc = "complete" /\ obs[q].fetched = 0 /\ run'[q] # run[q]) =>
             run'[q].pc \in {"done", "failed"} ]_vars

\* A run met an empty store after an earlier run had stored rows and written
\* a checkpoint; it has completed, and the rows and the checkpoint are there.
EmptyRunAfterCheckpoint ==
  \E r \in Runs :
    /\ run[r].pc = "done" /\ obs[r].fetched = 0
    /\ sync_checkpoints[RunKey(r)] # Null
    /\ customers # {}
    /\ sync_logs[run[r].logId].status = "completed"

\* The signature header of delivery d is not the HMAC of its body.
SignatureFailure(d) == d.signature # Hmac(d.body, d.token)

\* No tenant has the shop domain of delivery d.
UnknownTenant(d) == GetTenantByDomain(d.shopDomain) = NoTenant

\* C20: an answered delivery has status 200, 401, 404 or 500; a signature
\* failure is answered 401 and nothing else is; a verified delivery of an
\* unknown shop domain is answered 404, with no receipt claimed and no data
\* written; a delivery struck by a storage error other than the receipt's
\* unique violation is answered 500; and 200 is the answer only of a verified
\* delivery of a known tenant that no storage error struck.
WebhookStatusContract ==
  \A h \in Hooks :
    hook[h].pc = "done" =>
      LET d == hook[h] IN
      /\ d.status \in {200, 401, 404, 500}
      /\ SignatureFailure(d) <=> d.status = 401
      /\ (~SignatureFailure(d) /\ UnknownTenant(d) /\ ~d.faulted) => d.status = 404
      /\ d.status = 404 => UnknownTenant(d) /\ ~d.claimed /\ d.mutations = 0
      /\ d.faulted => d.status = 500
      /\ d.status = 200 =>
           ~SignatureFailure(d) /\ ~UnknownTenant(d) /\ ~d.faulted

\* Delivery h was answered 200 at the receipt insert's unique violation.
AnsweredDuplicate(h) ==
  /\ hook[h].pc = "done" /\ hook[h].status = 200
  /\ hook[h].tenant # NoTenant /\ ~hook[h].claimed

\* C21: receipt claim and data mutation are one unit per event: whenever a
\* delivery of an authentic event of a known tenant is answered 200 as a
\* duplicate, the delivery that claimed the event's receipt has made the
\* data mutation or is still on its way to it; a failure after the claim
\* never leaves the event claimed and unapplied, so the redelivery that
\* follows the 500 answer applies it.
ClaimedEventIsApplied ==
  \A h \in Hooks :
    AnsweredDuplicate(h) =>
      \E g \in SameEvent(h) :
        /\ hook[g].claimed
        /\ hook[g].mutations > 0 \/ hook[g].pc \in {"lookup", "mutate"}

\* The event a delivery carries: two deliveries carry the same event when
\* tenant, topic and payload (record, version, cart token) are the same.
EventOf(d) == <<d.tenant, d.topic, d.body.id, d.body.ver, d.token>>

\* C22: a delivery is answered as a duplicate only if another delivery of
\* the same event claimed the receipt: two successive updates of a customer,
\* or two carts with different tokens, are not deduplicated against each
\* other.
DuplicateOnlyOfSameEvent ==
  \A h \in Hooks :
    AnsweredDuplicate(h) =>
      \E g \in Hooks \ {h} :
        hook[g].claimed /\ EventOf(hook[g]) = EventOf(hook[h])

\* C23: a SyncLog row is 'running' only while the run that created it is
\* inside its try block; once the run has returned or thrown - whichever
\* statement failed, the checkpoint read at the start included - the row
\* is 'completed' or 'failed'.
RunningLogHasLiveRun ==
  \A i \in 1..Len(sync_logs) :
    sync_logs[i].status = "running" =>
      \E r \in Runs : run[r].logId = i /\ Active(r)

\* The query parameters of a page request, as getCustomers / getOrders /
\* getProducts build them: const params = { limit }; if (sinceId)
\* params.since_id = sinceId. The methods take two parameters: the third
\* argument of the call (the checkpoint) reaches no parameter.
RequestParams(limit, sinceId, updatedAtMin) ==
  {<<"limit", limit>>}
  \cup (IF sinceId # Null THEN {<<"since_id", sinceId>>} ELSE {})

\* The parameter names of a request.
ParamNames(params) == {q[1] : q \in params}

\* C24: every page request of a run that read a checkpoint at its start
\* carries that timestamp as the updated-since lower bound, next to the
\* cursor; a run that read none sends no lower bound.
RequestCarriesCheckpoint ==
  [][ \A r \in Runs :
        (run[r].pc = "fetch" /\ run'[r].pc \in {"write", "complete"}) =>
          LET params == RequestParams(PageSize, run[r].sinceId, run[r].lastUpdatedAt)
          IN /\ run[r].lastUpdatedAt = obs[r].ckptAtStart
             /\ run[r].lastUpdatedAt # Null =>
                  <<"updated_at_min", run[r].lastUpdatedAt>> \in params
             /\ run[r].lastUpdatedAt = Null =>
                  "updated_at_min" \notin ParamNames(params)
             /\ run'[r].page =
                  Take(SeqById({p \in source[RunKey(r)] :
                         /\ p.id > run[r].sinceId
                         /\ run[r].lastUpdatedAt # Null =>
                              EffectiveTs(p) >= run[r].lastUpdatedAt}), PageSize) ]_vars

\* The invocations made so far: the run slots that were started.
Invoked == {r \in Runs : run[r].pc # "idle"}

\* C25: every invocation of an orchestrator has inserted exactly one SyncLog
\* row, of its tenant and entity type, before anything else it does - also
\* when its checkpoint read failed - so that an invocation past its start
\* always holds a row of its own and there are as many rows as invocations.
EveryInvocationIsLogged ==
  /\ \A r \in Invoked :
       /\ run[r].logId \in 1..Len(sync_logs)
       /\ sync_logs[run[r].logId].tenant_id = run[r].tenant
       /\ sync_logs[run[r].logId].sync_type = run[r].entity
  /\ \A r \in Invoked : \A q \in Invoked : r # q => run[r].logId # run[q].logId
  /\ Len(sync_logs) = Cardinality(Invoked)

\* The external ids run r has written so far.
WrittenIds(r) == {w[1] : w \in obs[r].wrote}

\* C26: the pages of a run are handled one after the other: a page is
\* requested only when no page is in hand and every record fetched before
\* has been committed; the first request carries no cursor, every later one
\* carries the external id of the last record of the page before it; and
\* the commit of a page is the step that moves the cursor to that id.
PagesAreSequential ==
  [][ \A r \in Runs :
        /\ (run[r].pc = "fetch" /\ run'[r].pc \in {"write", "complete"}) =>
             LET params == RequestParams(PageSize, run[r].sinceId, run[r].lastUpdatedAt)
             IN /\ run[r].page = <<>>
                /\ Cardinality(obs[r].wrote) = obs[r].fetched
                /\ \A id \in WrittenIds(r) :
                     Hit(ParentTable(run[r].entity), run[r].tenant, id) # {}
                /\ obs[r].fetched = 0 =>
                     run[r].sinceId = Null /\ "since_id" \notin ParamNames(params)
                /\ obs[r].fetched > 0 =>
                     /\ run[r].sinceId = SetMax(WrittenIds(r))
                     /\ <<"since_id", SetMax(WrittenIds(r))>> \in params
                /\ run'[r].page = SourcePage(RunKey(r), PageSize, run[r].sinceId)
        /\ (run[r].pc = "write" /\ run'[r].pc \in {"fetch", "complete"}) =>
             /\ run'[r].sinceId = run[r].page[Len(run[r].page)].id
             /\ run'[r].page = <<>>
             /\ \A p \in Range(run[r].page) :
                  Hit(ParentTable(run[r].entity)', run[r].tenant, p.id) # {} ]_vars

\* A run has received its second page, requested with the cursor at the
\* last record of the first.
SecondPageInHand ==
  \E r \in Runs :
    /\ run[r].pc = "write" /\ run[r].sinceId = PageSize
    /\ obs[r].fetched > PageSize
    /\ run[r].page[1].id = PageSize + 1

\* The parent reference of a child row: product_variants.product_id,
\* order_line_items.order_id.
ParentRef(e, row) == IF e = "products" THEN row.product_id ELSE row.order_id

\* The tables and the checkpoint of key k are what one run over the source
\* as it is leaves: one parent row per record and one child row per child,
\* each carrying its own record's values, each child under its own parent,
\* and the checkpoint at the greatest timestamp.
AsSingleRun(k) ==
  LET t == k[1]
      e == k[2]
      parents == RowsOf(TableOf(e), t)
      kids == RowsOf(TableOf(ChildTable(e)), t)
  IN /\ Cardinality(parents) = Cardinality(source[k])
     /\ Cardinality(kids) = Cardinality(SourceChildren(k))
     /\ \A p \in source[k] :
          \E row \in parents :
            /\ row.ext = p.id /\ row.data = p.ver /\ row.kept = p.ver
            /\ row.shopify_updated_at = p.updated_at
            /\ \A c \in Range(p.children) :
                 \E kid \in kids :
                   /\ kid.ext = c.id /\ kid.data = c.ver
                   /\ kid.num = ParseFloat(c.num)
                   /\ ParentRef(e, kid) = row.id
     /\ sync_checkpoints[k] = SetMax({EffectiveTs(p) : p \in source[k]})

\* C27: when two runs of the same tenant and entity type, over a source that
\* does not change, have both returned, each has its own SyncLog row,
\* 'completed' with the full count, and rows and checkpoint are those of a
\* single run; and no interleaving of the two makes either of them fail:
\* a run fails only when a fetch or a storage statement failed.
OverlapEqualsSingleRun ==
  /\ \A r \in Runs : \A q \in Runs :
       ( /\ r # q /\ RunKey(r) = RunKey(q)
         /\ run[r].pc = "done" /\ run[q].pc = "done" ) =>
         /\ run[r].logId # run[q].logId
         /\ \A x \in {r, q} :
              /\ sync_logs[run[x].logId].status = "completed"
              /\ sync_logs[run[x].logId].records_processed
                   = Cardinality(source[RunKey(r)])
         /\ AsSingleRun(RunKey(r))
  /\ faults = 0 => \A r \in Runs : run[r].pc \notin {"failed", "thrown"}

\* Two product runs that overlapped, each writing both pages, have returned.
OverlappedRunsDone ==
  \E r \in Runs : \E q \in Runs :
    /\ r # q /\ RunKey(r) = RunKey(q) /\ run[r].entity = "products"
    /\ run[r].pc = "done" /\ run[q].pc = "done"
    /\ ~obs[r].alone /\ ~obs[q].alone
    /\ run[r].totalProcessed > PageSize /\ run[q].totalProcessed > PageSize

\* Everything stored for tenant t: its rows of the entity tables, its
\* events and receipts, its checkpoints and its sync logs.
TenantState(t) ==
  [rows |-> [n \in DOMAIN Snapshot |-> RowsOf(Snapshot[n], t)],
   events |-> RowsOf(custom_events, t),
   receipts |-> RowsOf(webhook_receipts, t),
   checkpoints |-> [e \in Entities |-> sync_checkpoints[<<t, e>>]],
   logs |-> SelectSeq(sync_logs, LAMBDA l : l.tenant_id = t)]

\* The tenants for which the step is made: the tenant of the run that moves,
\* the tenant of the shop domain of the delivery that moves.
Acting ==
  {run'[r].tenant : r \in {x \in Runs : run'[x] # run[x]}}
  \cup {GetTenantByDomain(hook'[h].shopDomain) : h \in {x \in Hooks : hook'[x] # hook[x]}}

\* C28: a step of a run or of a delivery made for one tenant leaves
\* everything stored for every other tenant as it is: entity rows, events,
\* receipts, checkpoints and sync logs.
TenantsAreIsolated ==
  [][ \A t \in Tenants : t \notin Acting => TenantState(t)' = TenantState(t) ]_vars

\* Both tenants hold their own row of customer 1, their own checkpoint and
\* their own receipt of the customers/update event.
BothTenantsStored ==
  /\ \A t \in Tenants :
       /\ \E row \in RowsOf(customers, t) : row.ext = 1 /\ row.data = TenantVer(t)
       /\ sync_checkpoints[<<t, "customers">>] = TenantVer(t)
  /\ Cardinality(webhook_receipts) = 2

\* The customers rows of tenant t with external id ext.
Matching(t, ext) == {c \in customers : c.tenant_id = t /\ c.ext = ext}

\* C29: the committed write of a page of orders sets every order row's
\* customer_id to the local id of the customers row of the same tenant with
\* the order's embedded customer id, when the order has a customer and such
\* a row exists at the time of the write, and to null otherwise; and the
\* write leaves the customers table as it is.
OrderLinksStoredCustomer ==
  [][ \A r \in Runs :
        ( /\ run[r].pc = "write" /\ run[r].entity = "orders"
          /\ run'[r].pc \in {"fetch", "complete"} ) =>
          /\ customers' = customers
          /\ \A o \in Range(run[r].page) :
               /\ Hit(orders', run[r].tenant, o.id) # {}
               /\ \A row \in Hit(orders', run[r].tenant, o.id) :
                    IF o.customer # Null /\ Matching(run[r].tenant, o.customer) # {}
                    THEN row.customer_id
                           \in {c.id : c \in Matching(run[r].tenant, o.customer)}
                    ELSE row.customer_id = Null ]_vars

\* An order is stored linked to its customer's row, after it had first been
\* written while that customer was not yet there.
OrderLinkedLater ==
  /\ \E row \in orders : row.customer_id # Null
  /\ hist[<<"orders", "t1", 1>>].n >= 2

\* Parent and children of entity e are stored whole for source record p of
\* tenant t: either no row of p and none of its children, or the parent row
\* and every child row, each child referencing that parent row's local id.
StoredWhole(e, t, p) ==
  LET parents == Hit(TableOf(e), t, p.id)
      kidsOf(c) == Hit(TableOf(ChildTable(e)), t, c.id)
  IN IF parents = {}
     THEN \A c \in Range(p.children) : kidsOf(c) = {}
     ELSE \A c \in Range(p.children) :
            /\ kidsOf(c) # {}
            /\ \A kid \in kidsOf(c) :
                 \E parent \in parents : ParentRef(e, kid) = parent.id

\* C30: in every committed state a product is stored with all its variants
\* or not at all (an order with all its line items or not at all), and every
\* variant / line-item row references the local id of a stored parent row
\* of its own tenant: the row of the record it arrived nested in.
ChildrenFollowParent ==
  /\ \A e \in PageEntities : \A t \in Tenants :
       \A p \in source[<<t, e>>] : StoredWhole(e, t, p)
  /\ \A e \in PageEntities :
       \A kid \in TableOf(ChildTable(e)) :
         \E parent \in TableOf(e) :
           /\ parent.id = ParentRef(e, kid)
           /\ parent.tenant_id = kid.tenant_id
           /\ \E p \in source[<<kid.tenant_id, e>>] :
                /\ p.id = parent.ext
                /\ \E c \in Range(p.children) : c.id = kid.ext

\* Three orders and their six line items are stored, the first order
\* written twice, and a page write of another run was rolled back.
OrdersRewrittenWhole ==
  /\ Cardinality(orders) = 3 /\ Cardinality(order_line_items) = 6
  /\ hist[<<"orders", "t1", 1>>].n >= 2
  /\ \E r \in Runs : run[r].pc = "failed" /\ obs[r].fetched > run[r].totalProcessed

\* The external ids of the child rows linked to parent row `parent` of
\* entity e, in the tables as tbls holds them.
LinkedChildren(tbls, e, parent) ==
  {kid.ext : kid \in {k \in tbls[ChildTable(e)] :
                         k.tenant_id = parent.tenant_id
                         /\ ParentRef(e, k) = parent.id}}

\* C31: after the committed write of a page of products (orders), the
\* variant (line-item) rows linked to each written parent are exactly the
\* children of the payload just written: a child the record no longer
\* contains is no longer linked.
ChildrenMatchLatestPayload ==
  [][ \A r \in Runs :
        ( /\ run[r].pc = "write" /\ run[r].entity \in PageEntities
          /\ run'[r].pc \in {"fetch", "complete"} ) =>
          \A p \in Range(run[r].page) :
            \A parent \in Hit(TableOf(run[r].entity)', run[r].tenant, p.id) :
              LinkedChildren(Snapshot', run[r].entity, parent)
                = {c.id : c \in Range(p.children)} ]_vars

\* The strings that are a decimal number from end to end.
IsDecimal(s) == s \in {"10.50", "0"}

\* C32: no committed write, by a sync page or by a webhook, has applied a
\* payload whose price or total is not a decimal number: such a payload
\* makes the write fail, so no row holds a value coerced from it.
UnparseableNumberFailsWrite ==
  \A key \in HistKeys :
    hist[key].n >= 1 =>
      /\ IsDecimal(hist[key].last.num)
      /\ \A row \in Hit(customers, key[2], key[3]) :
           key[1] = "customers" => row.num \notin {"NaN", "0.00"}

\* The identity of a row: local id, tenant, external id.
Identity(row) == <<row.id, row.tenant_id, row.ext>>

\* C33: no step removes a row or changes its local id, tenant or external
\* id, in any of the five entity tables; hence after every step each child
\* row still references a stored parent row and each order with a customer
\* reference a stored customer row, of the same tenant.
IdentityIsKept ==
  [][ /\ \A n \in DOMAIN Snapshot :
           {Identity(row) : row \in Snapshot[n]}
             \subseteq {Identity(row) : row \in Snapshot'[n]}
      /\ \A e \in PageEntities :
           \A kid \in TableOf(ChildTable(e))' :
             \E parent \in TableOf(e)' :
               parent.id = ParentRef(e, kid) /\ parent.tenant_id = kid.tenant_id
      /\ \A o \in orders' :
           o.customer_id # Null =>
             \E c \in customers' : c.id = o.customer_id /\ c.tenant_id = o.tenant_id
    ]_vars

\* A customer row to which an order is linked has been upserted twice, the
\* last time by a webhook.
LinkedRowsRewritten ==
  /\ hist[<<"customers", "t1", 1>>].n >= 2
  /\ hist[<<"customers", "t1", 1>>].path = "webhook"
  /\ \E o \in orders : \E c \in customers : o.customer_id = c.id

\* C34: in a scheduled sweep the orchestrator is invoked only by the sweep,
\* for the tenant in hand and the entity type that is due; the entity types
\* follow one another as customers, products, orders, the next one being
\* due only once the previous call has returned; and the sweep leaves a
\* tenant it ingests only after the third call, the one for orders.
SweepIngestsAllThreeInOrder ==
  [][ /\ (run[1].pc = "idle" /\ run'[1].pc # "idle") =>
           /\ sweep.pc = "ingest"
           /\ run'[1].tenant = sweep.tenant
           /\ run'[1].entity = Ingests[sweep.step]
      /\ (sweep.pc = "ingest" /\ sweep'.pc = "ingest" /\ sweep'.step # sweep.step) =>
           /\ sweep'.step = sweep.step + 1
           /\ run[1].pc = "done"
      /\ (sweep.pc = "ingest" /\ sweep'.pc = "tenant") =>
           Ingests[sweep.step] = "orders" ]_vars

\* An ingest of the sweep is under way: the tenant in hand.
SweepInvoked == {run[r].tenant : r \in {q \in Invoked : sweep.pc = "ingest"}}

\* C35: a scheduled sweep invokes the orchestrator only for tenants that are
\* active and have a usable credential: the tenant of a call under way, of
\* every SyncLog row and of every stored row is such a tenant, so a tenant
\* without a credential gets no SyncLog row; skipping it raises no error
\* (it is neither caught as failed nor fatal to the sweep); and a sweep that
\* finds no active tenant ends with nothing written.
SweepIngestsOnlyEligible ==
  /\ SweepInvoked \subseteq Eligible(sweep.rows)
  /\ \A i \in 1..Len(sync_logs) : sync_logs[i].tenant_id \in Eligible(sweep.rows)
  /\ \A n \in DOMAIN Snapshot : \A row \in Snapshot[n] :
       row.tenant_id \in Eligible(sweep.rows)
  /\ sweep.attempted \cup sweep.caught \cup sweep.finished \subseteq Eligible(sweep.rows)
  /\ (sweep.pc # "idle" /\ Eligible(sweep.rows) = {} /\ ~sweep.fatal) =>
       /\ NothingAttempted
       /\ sweep.caught = {}
  /\ (sweep.pc = "done" /\ ~sweep.fatal /\ ActiveTenants(sweep.rows) = <<>>) =>
       /\ sweep.visited = {}
       /\ \A n \in DOMAIN Snapshot : Snapshot[n] = {}

\* The sweep skipped the first tenant, which has no credential, and ingested
\* the second, an active one with a credential, to the end.
SweepSkippedTokenlessTenant ==
  /\ sweep.pc = "done"
  /\ sweep.rows = [t \in Tenants |-> IF t = "t1" THEN "no_token" ELSE "ok"]
  /\ sweep.visited = {"t1", "t2"}
  /\ sweep.finished = {"t2"}
  /\ Len(sync_logs) = Len(Ingests)

\* The records a run's requests can match: those of its collection (the
\* cursor starts at 0 and no request carries another filter).
MatchingRecords(r) == source[RunKey(r)]

\* C36: against a store that holds N records of the run's collection and
\* answers each request with the records above the cursor, in ascending id
\* order and at most PageSize at a time, a run issues at most
\* floor(N / PageSize) + 1 page requests, and every run that has started
\* ends, completed or failed.
RunTerminatesWithinPageBound ==
  /\ [](\A r \in Runs :
          obs[r].requests <= (Cardinality(MatchingRecords(r)) \div PageSize) + 1)
  /\ \A r \in Runs : (run[r].pc = "fetch") ~> (run[r].pc \in {"done", "failed"})

\* A run over PageSize records has completed after two requests: one full
\* page, then the empty one.
RunEndedOnEmptyPage ==
  \E r \in Runs :
    /\ run[r].pc = "done"
    /\ Cardinality(MatchingRecords(r)) = PageSize
    /\ obs[r].requests = 2
    /\ obs[r].fetched = PageSize

\* C37: a statement issued through Database.query takes effect at most once
\* per call, also when attempts are repeated after connection errors: a call
\* of createSyncLog's insert leaves at most one row, and a receipt insert
\* that met no earlier receipt when it was called does not end with the
\* unique violation by which a handler tells a duplicate.
StatementTakesEffectOnce ==
  /\ call.applied <= 1
  /\ call.stmt = "createSyncLog" => Len(sync_logs) <= call.calls
  /\ (call.stmt = "receipt" /\ call.fresh /\ call.pc = "thrown") =>
       call.error # "23505"

\* The error classes the loop may retry after.
ConnectionClass == {"ECONNRESET", "Connection terminated"}

\* C38: a Database.query call makes at most 3 attempts; every attempt but
\* the last one ended with a connection-class error; a call that throws,
\* throws the error of its last attempt, which is either not of connection
\* class or the error of the third attempt; and every call ends, with a
\* result or with an error.
QueryRetriesAreBounded ==
  /\ [](/\ call.i + 1 <= 3
        /\ Len(call.errors) <= 3
        /\ \A j \in 1..(Len(call.errors) - 1) : call.errors[j] \in ConnectionClass
        /\ call.pc \in {"attempt", "returned"} =>
             /\ Len(call.errors) = call.i
             /\ \A j \in 1..Len(call.errors) : call.errors[j] \in ConnectionClass
        /\ call.pc = "thrown" =>
             /\ Len(call.errors) = call.i + 1
             /\ call.error = call.errors[Len(call.errors)]
             /\ call.error \in ConnectionClass => Len(call.errors) = 3)
  /\ (call.pc = "attempt") ~> (call.pc \in {"returned", "thrown"})

\* The second call has thrown the connection error of its third attempt.
ThirdAttemptFailed ==
  /\ call.pc = "thrown"
  /\ Len(call.errors) = 3
  /\ call.error \in ConnectionClass
  /\ call.calls = 2

\* C39: at most one invocation of the scheduled sweep is in progress at any
\* time: a timer that fires while an earlier invocation has not returned
\* starts no second one.
AtMostOneSweepInProgress == timer.inflight <= 1

\* The customers row that local id ref, held by a row of tenant t written
\* from a payload with embedded customer id cust, has to be.
RefersTo(ref, t, cust) ==
  \E c \in customers : c.id = ref /\ c.tenant_id = t /\ c.ext = cust

\* C40: in every reachable state a non-null customer_id of an order row or
\* of a custom-event row is the local id of a stored customers row of the
\* same tenant, whose external id is the customer id embedded in the payload
\* that last wrote the row.
CustomerReferenceIsValid ==
  /\ \A o \in orders :
       o.customer_id # Null =>
         RefersTo(o.customer_id, o.tenant_id,
                  hist[<<"orders", o.tenant_id, o.ext>>].last.customer)
  /\ \A ev \in custom_events :
       ev.customer_id # Null =>
         RefersTo(ev.customer_id, ev.tenant_id, ev.event_data.customer)

\* Both tenants hold a customer with the same external id, and an order and
\* a cart event of the second tenant are linked to a customer.
BothShopsLinked ==
  /\ \A t \in Tenants : Hit(customers, t, 1) # {}
  /\ \E o \in orders : o.tenant_id = "t2" /\ o.customer_id # Null
  /\ \E ev \in custom_events : ev.tenant_id = "t2" /\ ev.customer_id # Null

====
